---- MODULE Spec2Model ----
(***************************************************************************)
(* A model of gopisysfs: the sysfs file primitives, the asynchronous       *)
(* "wait for a path to appear / disappear" watch, and the GPIO port        *)
(* operations built on them.                                               *)
(*                                                                         *)
(* Time is discrete; one unit is one pollInterval (20 ms).  Program steps  *)
(* take no time: the clock advances (Tick) only when every caller and      *)
(* every watcher goroutine is blocked on a timer, a channel, a lock, or is *)
(* outside a call.  The filesystem (the kernel, other processes) acts at   *)
(* any moment and is never forced to act.                                  *)
(***************************************************************************)
EXTENDS Integers, Sequences, FiniteSets, TLC

(* ------------------------------ bounds --------------------------------- *)

\* direct await calls a caller makes, one after the other
MaxCalls == 2
\* largest timeout (in poll intervals) handed to a direct await call
MaxTimeout == 3
\* port method calls each caller makes
MaxPortCalls == 1

\* the concurrent callers (goroutines of the library's user); the one in
\* Watchers makes the direct await calls
Callers == {1, 2}
Watchers == {1}

(* --------------------------- program constants ------------------------- *)

\* pollInterval = 20 * time.Millisecond: the unit of time of the model
pollInterval == 1
\* timelimit = time.Second, in poll intervals
timelimit == 50 * pollInterval
\* capacity of the channel made by awaitFileCreate / awaitFileRemove
retCap == 1

GPIO40HeaderV1 ==
    <<14, 15, 18, 23, 24, 25, 8, 7, 12, 16, 20, 21,
      2, 3, 4, 17, 27, 22, 10, 9, 11, 5, 6, 13, 19, 26>>

\* the ports the callers of the model work on; PortArgs adds a number that is
\* on no header
Ports == {17}
PortArgs == Ports \cup {1}

(* ------------------------------- paths --------------------------------- *)

Digits == <<"0", "1", "2", "3", "4", "5", "6", "7", "8", "9">>

RECURSIVE Sprintf_d(_)
\* fmt.Sprintf("%d", n) for n >= 0
Sprintf_d(n) ==
    IF n < 10 THEN Digits[n + 1]
    ELSE Sprintf_d(n \div 10) \o Digits[(n % 10) + 1]

Join(a, b) == a \o "/" \o b

gpiodir == "/sys/class/gpio"
sport(p) == Sprintf_d(p)
folder(p) == Join(gpiodir, "gpio" \o sport(p))
value(p) == Join(folder(p), "value")
direction(p) == Join(folder(p), "direction")
edge(p) == Join(folder(p), "edge")
export == Join(gpiodir, "export")
unexport == Join(gpiodir, "unexport")
portFolder(p) == Join(gpiodir, "gpio" \o Sprintf_d(p))

\* the path a direct await call watches, and its parent
TmpDir == "/tmp/gopisysfs"
TmpFile == Join(TmpDir, "await")

CtlFiles(p) == {direction(p), value(p), edge(p)}
Folders == {folder(p) : p \in Ports}
Paths == {TmpFile} \cup Folders \cup UNION {CtlFiles(p) : p \in Ports}

\* filepath.Dir on the paths the model awaits
Dir(name) == IF name = TmpFile THEN TmpDir ELSE gpiodir

IsPort(port) == \E i \in 1 .. Len(GPIO40HeaderV1) : GPIO40HeaderV1[i] = port

(* ------------------------------- state --------------------------------- *)

VARIABLES
    fs,          \* path -> "absent" | "denied" (exists, writes refused) | "ready"
    content,     \* control file -> its trimmed content
    parentKind,  \* what TmpDir is: "dir" | "notdir" | "missing"
    kpending,    \* requests the kernel accepted and has not acted on yet
    mu,          \* port -> the callers holding gport.mu (none, or one)
    th,          \* caller -> its position and locals
    w,           \* caller -> the watcher goroutine its await call started, and
                 \*   whether that goroutine closed the channel
    ret,         \* caller -> the buffer of the channel its await call made
    g,           \* caller -> the history of its current call (observation only)
    hist         \* port -> the history of the port (observation only)

\* the Pi values of the process and their port caches
VARIABLES
    availableGPIO,  \* the line numbers found under the gpiochips at init()
    sysReadable,    \* whether the model and cpuinfo files can be read
    getdetails,     \* the sync.Once of GetPi: "new" | "done"
    host,           \* the Pi value GetPi hands out (0: nil)
    pis,            \* the Pi values built so far, in order: id -> its fields
    portctrl,       \* Pi id -> line -> the port object cached (0: no entry)
    pimu,           \* Pi id -> the callers holding pi.mu
    objs,           \* the port objects made so far, in order: id -> <<pi, line>>
    gp,             \* caller -> its position in a Pi call and its locals
    got,            \* every <<pi, line, object>> a GetPort returned (observation)
    crashed         \* the process has panicked

\* the edge monitor of one value file
VARIABLES
    buffersize,     \* capacity of the event channel
    md,             \* the monitorData goroutine: position and locals
    data,           \* the buffer of the event channel
    closes,         \* how often close(data) and valf.Close() ran
    killer,         \* the buffer of the killer channel
    vfile,          \* the value file: content and error state
    now,            \* the clock time.Now() reads
    rx,             \* the consumer: what it received, in order
    reads,          \* the contents the monitor read, in order (observation)
    kc              \* the callers of the stop function

\* the I2C poller of one device
VARIABLES
    poller,         \* the I2CPoll call and its goroutine: position and locals
    pollkiller,     \* the buffer of the poller's killer channel
    ticker,         \* the buffer of tick.C: the ticks not yet received
    prx,            \* the consumer of the poller's channel
    pcloses,        \* how often close(data), ctrl.Close() and tick.Stop() ran
    tc              \* the callers of the termination function

\* the locks of the library, and the tasks that take them
VARIABLES
    syslock,        \* the tasks holding syslock (none, or one)
    portmu,         \* port -> the tasks holding the gport.mu of its object
    cachemu,        \* the tasks holding pi.mu
    iot             \* task -> the call and the file operation it is in

sysvars == <<fs, content, parentKind, kpending, mu, th, w, ret, g, hist>>
pivars == <<availableGPIO, sysReadable, getdetails, host, pis, portctrl, pimu,
            objs, gp, got, crashed>>
monvars == <<buffersize, md, data, closes, killer, vfile, now, rx, reads, kc>>
i2cvars == <<poller, pollkiller, ticker, prx, pcloses, tc>>
iovars == <<syslock, portmu, cachemu, iot>>
\* what the Pi values and the edge monitor leave alone besides each other
extra == <<i2cvars, iovars>>
\* what the file watches and the port methods leave alone
others == <<pivars, monvars, extra>>

vars == <<sysvars, pivars, monvars, i2cvars, iovars>>

ThInit ==
    [pc |-> "idle", retpc |-> "idle", op |-> "none", arg |-> 0, port |-> 0,
     name |-> "", timeout |-> 0, h |-> "nil", err |-> "nil", val |-> "-",
     calls |-> 0, since |-> -1, remaining |-> 0, fidx |-> 0,
     sleep |-> -1, tA |-> -1, tB |-> -1]

WInit ==
    [pc |-> "none", kind |-> "none", name |-> "", msg |-> "nil",
     tout |-> -1, interval |-> FALSE, events |-> FALSE, closed |-> FALSE]

GInit ==
    [active |-> FALSE, elapsed |-> 0, sent |-> 0, msg |-> "-", at |-> -1,
     held |-> FALSE, appear |-> -1, condAtCall |-> FALSE, spawned |-> FALSE,
     entry |-> FALSE, io |-> {}, obs |-> <<>>, unexports |-> 0]

HInit == [nExport |-> 0, okEnable |-> FALSE]

(* --------------------------- file primitives --------------------------- *)

\* checkFile: os.Stat(name) succeeded
checkFile(name) == fs[name] # "absent"

\* os.Stat(dir): "dir", "notdir" or "missing"
StatDir(dir) == IF dir = TmpDir THEN parentKind ELSE "dir"

\* the ports whose decimal number the text is
Target(text) == {p \in Ports : Sprintf_d(p) = text}

\* the errors ioutil.WriteFile(name, text) can return in the current state:
\* the kernel refuses to export a line that is exported and to unexport one
\* that is not, and any write may fail ("io"); sysfs creates no file, and
\* refuses the attempt with "no such file" or "permission denied"
writeFile(name, text) ==
    IF name = export
    THEN IF Target(text) = {} THEN {"inval"}
         ELSE IF \E p \in Target(text) : fs[folder(p)] # "absent" THEN {"busy"}
         ELSE {"nil", "io"}
    ELSE IF name = unexport
    THEN IF Target(text) = {} \/ \E p \in Target(text) : fs[folder(p)] = "absent"
         THEN {"inval"}
         ELSE {"nil", "io"}
    ELSE IF fs[name] = "absent" THEN {"notexist", "perm"}
    ELSE IF name \in Folders THEN {"isdir"}
    ELSE IF fs[name] = "denied" THEN {"perm"}
    ELSE {"nil", "inval"}

\* os.IsPermission
IsPermission(err) == err = "perm"

\* readFile: <<content, error>>
readFile(name) ==
    IF fs[name] = "absent" THEN <<"", "notexist">>
    ELSE IF name \in Folders THEN <<"", "isdir">>
    ELSE IF fs[name] = "denied" THEN <<"", "perm">>
    ELSE <<content[name], "nil">>

\* whether the condition a watch of this kind awaits holds
Cond(kind, name) ==
    IF kind = "create" THEN checkFile(name) ELSE ~checkFile(name)

(* ------------------------- observation helpers ------------------------- *)

Log(c, ev) == [g[c] EXCEPT !.io = @ \cup {ev}]

\* what is on disk, read off fs without going through the library
Exists(name) == fs[name] # "absent"

\* the history of a watch, dropped once a port method has taken its result
WatchTaken(h) ==
    [h EXCEPT !.active = FALSE, !.elapsed = 0, !.sent = 0, !.msg = "-",
              !.at = -1, !.held = FALSE, !.appear = -1, !.condAtCall = FALSE]

\* history of an await call at its first check: `holds` is whether the awaited
\* condition held on disk at that moment
CallSeen(h, kind, name, holds) ==
    [h EXCEPT !.active = ~holds, !.elapsed = 0, !.condAtCall = holds,
              !.held = holds, !.sent = IF holds THEN 1 ELSE 0,
              !.msg = IF holds THEN "nil" ELSE "-",
              !.at = IF holds THEN 0 ELSE -1,
              !.io = @ \cup {<<"await", kind, name>>}]

\* the call of caller c returns from the await function to its caller
AwaitReturn(t, handle, err) ==
    [t EXCEPT !.pc = t.retpc, !.h = handle, !.err = err]

(* -------------------- awaitFileCreate / awaitFileRemove ---------------- *)

\* (a variant that forgets the return after the immediate send)
awaitFileCreate_check_fallthrough(c) ==
    /\ th[c].pc = "afc_check"
    /\ LET name == th[c].name IN
       /\ g' = [g EXCEPT ![c] = CallSeen(@, "create", name, Exists(name))]
       /\ ret' = [ret EXCEPT ![c] = IF checkFile(name) THEN <<"nil">> ELSE <<>>]
       /\ th' = [th EXCEPT ![c].pc = "afc_stat"]
    /\ UNCHANGED <<fs, content, parentKind, kpending, mu, w, hist, others>>

\* awaitFileCreate, first part: make the channel, and if the file is there
\* already put nil in it and return it
awaitFileCreate_check(c) ==
    /\ th[c].pc = "afc_check"
    /\ LET name == th[c].name IN
       /\ g' = [g EXCEPT ![c] = CallSeen(@, "create", name, Exists(name))]
       /\ IF checkFile(name)
          THEN /\ ret' = [ret EXCEPT ![c] = <<"nil">>]
               /\ th' = [th EXCEPT ![c] = AwaitReturn(@, "ch", "nil")]
          ELSE /\ ret' = [ret EXCEPT ![c] = <<>>]
               /\ th' = [th EXCEPT ![c].pc = "afc_stat"]
    /\ UNCHANGED <<fs, content, parentKind, kpending, mu, w, hist, others>>

\* the goroutine awaitFileCreate / awaitFileRemove starts, with its timeout
\* armed: tout := time.After(timeout); interval := time.NewTicker(pollInterval)
Spawn(kind, name, timeout) ==
    [pc |-> "check", kind |-> kind, name |-> name, msg |-> "nil",
     tout |-> timeout, interval |-> FALSE, events |-> FALSE, closed |-> FALSE]

\* (a variant that arms the timeout one poll interval short)
awaitFileCreate_stat_early(c) ==
    /\ th[c].pc = "afc_stat"
    /\ IF StatDir(Dir(th[c].name)) # "dir"
       THEN /\ th' = [th EXCEPT ![c] = AwaitReturn(@, "nil", "config")]
            /\ g' = [g EXCEPT ![c].active = FALSE]
            /\ UNCHANGED w
       ELSE /\ w' = [w EXCEPT ![c] =
                       Spawn("create", th[c].name,
                             IF th[c].timeout > 0 THEN th[c].timeout - pollInterval
                             ELSE 0)]
            /\ th' = [th EXCEPT ![c] = AwaitReturn(@, "ch", "nil")]
            /\ g' = [g EXCEPT ![c].spawned = TRUE]
    /\ UNCHANGED <<fs, content, parentKind, kpending, mu, ret, hist, others>>

\* (a variant that polls without looking at the parent directory)
awaitFileCreate_stat_nocheck(c) ==
    /\ th[c].pc = "afc_stat"
    /\ w' = [w EXCEPT ![c] = Spawn("create", th[c].name, th[c].timeout)]
    /\ th' = [th EXCEPT ![c] = AwaitReturn(@, "ch", "nil")]
    /\ g' = [g EXCEPT ![c].spawned = TRUE]
    /\ UNCHANGED <<fs, content, parentKind, kpending, mu, ret, hist, others>>

\* awaitFileCreate, second part: the parent must be a directory; then arm the
\* timeout and the ticker, start the polling goroutine and return the channel
awaitFileCreate_stat(c) ==
    /\ th[c].pc = "afc_stat"
    /\ IF StatDir(Dir(th[c].name)) # "dir"
       THEN /\ th' = [th EXCEPT ![c] = AwaitReturn(@, "nil", "config")]
            /\ g' = [g EXCEPT ![c].active = FALSE]
            /\ UNCHANGED w
       ELSE /\ w' = [w EXCEPT ![c] = Spawn("create", th[c].name, th[c].timeout)]
            /\ th' = [th EXCEPT ![c] = AwaitReturn(@, "ch", "nil")]
            /\ g' = [g EXCEPT ![c].spawned = TRUE]
    /\ UNCHANGED <<fs, content, parentKind, kpending, mu, ret, hist, others>>

\* (a variant without the shortcut: it always starts the goroutine)
awaitFileRemove_check_noshortcut(c) ==
    /\ th[c].pc = "afr_check"
    /\ LET name == th[c].name IN
       /\ g' = [g EXCEPT ![c] = [CallSeen(@, "remove", name, ~Exists(name))
                                   EXCEPT !.spawned = TRUE, !.active = TRUE,
                                          !.sent = 0, !.msg = "-", !.at = -1]]
       /\ ret' = [ret EXCEPT ![c] = <<>>]
       /\ w' = [w EXCEPT ![c] = Spawn("remove", name, th[c].timeout)]
       /\ th' = [th EXCEPT ![c] = AwaitReturn(@, "ch", "nil")]
    /\ UNCHANGED <<fs, content, parentKind, kpending, mu, hist, others>>

\* (an awaitFileRemove that hands back an empty channel when the file is gone
\* already)
awaitFileRemove_check_no_send(c) ==
    /\ th[c].pc = "afr_check"
    /\ LET name == th[c].name IN
       /\ g' = [g EXCEPT ![c] = [CallSeen(@, "remove", name, ~Exists(name))
                                   EXCEPT !.spawned = checkFile(name)]]
       /\ ret' = [ret EXCEPT ![c] = <<>>]
       /\ IF ~checkFile(name)
          THEN UNCHANGED w
          ELSE w' = [w EXCEPT ![c] = Spawn("remove", name, th[c].timeout)]
       /\ th' = [th EXCEPT ![c] = AwaitReturn(@, "ch", "nil")]
    /\ UNCHANGED <<fs, content, parentKind, kpending, mu, hist, others>>

\* awaitFileRemove: make the channel; if the file is gone already put nil in
\* it and return; else arm the timers, start the goroutine and return
awaitFileRemove_check(c) ==
    /\ th[c].pc = "afr_check"
    /\ LET name == th[c].name IN
       /\ g' = [g EXCEPT ![c] = [CallSeen(@, "remove", name, ~Exists(name))
                                   EXCEPT !.spawned = checkFile(name)]]
       /\ IF ~checkFile(name)
          THEN /\ ret' = [ret EXCEPT ![c] = <<"nil">>]
               /\ UNCHANGED w
          ELSE /\ ret' = [ret EXCEPT ![c] = <<>>]
               /\ w' = [w EXCEPT ![c] = Spawn("remove", name, th[c].timeout)]
       /\ th' = [th EXCEPT ![c] = AwaitReturn(@, "ch", "nil")]
    /\ UNCHANGED <<fs, content, parentKind, kpending, mu, hist, others>>

\* the polling goroutine, top of the loop: checkFile(name)
poll_check(c) ==
    /\ w[c].pc = "check"
    /\ IF Cond(w[c].kind, w[c].name)
       THEN w' = [w EXCEPT ![c].pc = "send", ![c].msg = "nil"]
       ELSE w' = [w EXCEPT ![c].pc = "select"]
    /\ UNCHANGED <<fs, content, parentKind, kpending, mu, th, ret, g, hist, others>>

\* (a variant that takes a tick of the ticker for the timeout)
poll_select_tick_is_timeout(c) ==
    /\ w[c].pc = "select"
    /\ w[c].tout = 0 \/ w[c].interval
    /\ w' = [w EXCEPT ![c].pc = "send", ![c].msg = "timeout"]
    /\ UNCHANGED <<fs, content, parentKind, kpending, mu, th, ret, g, hist, others>>

\* the polling goroutine's select: the timeout, or the next tick
poll_select(c) ==
    /\ w[c].pc = "select"
    /\ \/ /\ w[c].tout = 0
          /\ w' = [w EXCEPT ![c].pc = "send", ![c].msg = "timeout"]
       \/ /\ w[c].interval
          /\ w' = [w EXCEPT ![c].pc = "check", ![c].interval = FALSE]
    /\ UNCHANGED <<fs, content, parentKind, kpending, mu, th, ret, g, hist, others>>

\* the polling goroutine's send on ret (blocks while the buffer is full),
\* followed by its return
poll_send(c) ==
    /\ w[c].pc = "send"
    /\ Len(ret[c]) < retCap
    /\ ret' = [ret EXCEPT ![c] = Append(@, w[c].msg)]
    /\ w' = [w EXCEPT ![c] = WInit]
    /\ g' = [g EXCEPT ![c] = [@ EXCEPT !.sent = @ + 1, !.msg = w[c].msg,
                                       !.at = g[c].elapsed, !.active = FALSE]]
    /\ UNCHANGED <<fs, content, parentKind, kpending, mu, th, hist, others>>

(* ------------------- awaitFileCreate, the fsnotify variant ------------- *)

\* make the channel; if os.Stat(name) succeeds put nil in it and return it
awaitFileCreate_notify_check(c) ==
    /\ th[c].pc = "afn_check"
    /\ LET name == th[c].name IN
       /\ g' = [g EXCEPT ![c] = CallSeen(@, "create", name, Exists(name))]
       /\ IF fs[name] # "absent"
          THEN /\ ret' = [ret EXCEPT ![c] = <<"nil">>]
               /\ th' = [th EXCEPT ![c] = AwaitReturn(@, "ch", "nil")]
          ELSE /\ ret' = [ret EXCEPT ![c] = <<>>]
               /\ th' = [th EXCEPT ![c].pc = "afn_watch"]
    /\ UNCHANGED <<fs, content, parentKind, kpending, mu, w, hist, others>>

\* fsnotify.NewWatcher() and watcher.Add(dir), either of which may fail (Add
\* does when dir is no directory); then arm the timeout, start the goroutine
\* and return the channel
awaitFileCreate_notify_watch(c) ==
    /\ th[c].pc = "afn_watch"
    /\ \E e \in IF StatDir(Dir(th[c].name)) = "dir" THEN {"nil", "newwatcher"}
                 ELSE {"add", "newwatcher"} :
          IF e # "nil"
          THEN /\ th' = [th EXCEPT ![c] = AwaitReturn(@, "nil", e)]
               /\ g' = [g EXCEPT ![c].active = FALSE]
               /\ UNCHANGED w
          ELSE /\ w' = [w EXCEPT ![c] =
                          [Spawn("create", th[c].name, th[c].timeout)
                             EXCEPT !.pc = "ncheck"]]
               /\ th' = [th EXCEPT ![c] = AwaitReturn(@, "ch", "nil")]
               /\ g' = [g EXCEPT ![c].spawned = TRUE]
    /\ UNCHANGED <<fs, content, parentKind, kpending, mu, ret, hist, others>>

\* the goroutine, top of the loop: os.Stat(name)
notify_check(c) ==
    /\ w[c].pc = "ncheck"
    /\ IF fs[w[c].name] # "absent"
       THEN w' = [w EXCEPT ![c].pc = "nsend", ![c].msg = "nil"]
       ELSE w' = [w EXCEPT ![c].pc = "nselect"]
    /\ UNCHANGED <<fs, content, parentKind, kpending, mu, th, ret, g, hist, others>>

\* the goroutine's select: the timeout; an error from watcher.Errors, or that
\* channel closed; watcher.Events closed; or an event on the directory
notify_select(c) ==
    /\ w[c].pc = "nselect"
    /\ \/ /\ w[c].tout = 0
          /\ w' = [w EXCEPT ![c].pc = "nsend", ![c].msg = "timeout"]
       \/ \E e \in {"watcherror", "errorsclosed", "eventsclosed"} :
             w' = [w EXCEPT ![c].pc = "nsend", ![c].msg = e]
       \/ /\ w[c].events
          /\ w' = [w EXCEPT ![c].pc = "ncheck", ![c].events = FALSE]
    /\ UNCHANGED <<fs, content, parentKind, kpending, mu, th, ret, g, hist, others>>

\* the goroutine's send on ret, its return, and the deferred close(ret) and
\* watcher.Close()
notify_send(c) ==
    /\ w[c].pc = "nsend"
    /\ Len(ret[c]) < retCap
    /\ ret' = [ret EXCEPT ![c] = Append(@, w[c].msg)]
    /\ w' = [w EXCEPT ![c] = [WInit EXCEPT !.closed = TRUE]]
    /\ g' = [g EXCEPT ![c] = [@ EXCEPT !.sent = @ + 1, !.msg = w[c].msg,
                                       !.at = g[c].elapsed, !.active = FALSE]]
    /\ UNCHANGED <<fs, content, parentKind, kpending, mu, th, hist, others>>

(* ------------------------------ GPIOResetAsync ------------------------- *)

\* Pi.GPIOResetAsync(port, timeout): an invalid port is refused, a valid one
\* is awaited with awaitFileRemove(portFolder(port), timeout)
GPIOResetAsync(c) ==
    /\ th[c].pc = "ra_isport"
    /\ IF ~IsPort(th[c].arg)
       THEN th' = [th EXCEPT ![c] = AwaitReturn(@, "nil", "notaport")]
       ELSE th' = [th EXCEPT ![c].pc = "afr_check",
                             ![c].name = portFolder(th[c].arg)]
    /\ UNCHANGED <<fs, content, parentKind, kpending, mu, w, ret, g, hist, others>>

(* -------------------------- direct await calls ------------------------- *)

\* a caller calls awaitFileCreate / awaitFileRemove on TmpFile, or
\* GPIOResetAsync on a port, with some timeout
DirectCall(c) ==
    /\ c \in Watchers
    /\ th[c].pc \in {"idle", "have"}
    /\ w[c].pc = "none"
    /\ th[c].calls < MaxCalls
    /\ \E fn \in {"awaitFileCreate", "awaitFileRemove", "GPIOResetAsync",
                  "awaitFileCreate/fsnotify"},
          tm \in 0 .. MaxTimeout, port \in PortArgs :
          /\ fn # "GPIOResetAsync" => port = 1
          /\ th' = [th EXCEPT ![c] =
                      [@ EXCEPT !.op = fn, !.timeout = tm, !.retpc = "have",
                                !.calls = @ + 1, !.h = "nil", !.err = "nil",
                                !.val = "-",
                                !.arg = IF fn = "GPIOResetAsync" THEN port ELSE 0,
                                !.name = IF fn = "GPIOResetAsync" THEN "" ELSE TmpFile,
                                !.pc = CASE fn = "awaitFileCreate" -> "afc_check"
                                         [] fn = "awaitFileRemove" -> "afr_check"
                                         [] fn = "GPIOResetAsync" -> "ra_isport"
                                         [] OTHER -> "afn_check"]]
    /\ g' = [g EXCEPT ![c] = GInit]
    /\ ret' = [ret EXCEPT ![c] = <<>>]
    /\ w' = [w EXCEPT ![c] = WInit]
    /\ UNCHANGED <<fs, content, parentKind, kpending, mu, hist, others>>

\* the consumer of a handle receives from it, when it chooses to: the value
\* in the buffer, or from a closed and empty channel the zero value, not ok
Consume(c) ==
    /\ th[c].pc = "have"
    /\ th[c].h = "ch"
    /\ ret[c] # <<>> \/ w[c].closed
    /\ th' = [th EXCEPT ![c].val = IF ret[c] # <<>> THEN Head(ret[c]) ELSE "closed"]
    /\ ret' = [ret EXCEPT ![c] = IF @ # <<>> THEN Tail(@) ELSE @]
    /\ UNCHANGED <<fs, content, parentKind, kpending, mu, w, g, hist, others>>

(* ------------------------------ filesystem ----------------------------- *)

WatchedPaths == {TmpFile} \cup Folders

\* history: the awaited condition of the running watches on `name` changed
Observe(name, exists) ==
    [c \in Callers |->
        IF g[c].active /\ th[c].name = name
        THEN LET isCreate == <<"await", "create", name>> \in g[c].io IN
             [g[c] EXCEPT !.held = @ \/ (isCreate = exists),
                          !.appear = IF exists THEN g[c].elapsed ELSE -1]
        ELSE g[c]]

\* the fsnotify watchers on the directory of `name` get an event
Notify(name) ==
    [c \in Callers |->
        IF w[c].pc \in {"ncheck", "nselect", "nsend"} /\ Dir(w[c].name) = Dir(name)
        THEN [w[c] EXCEPT !.events = TRUE]
        ELSE w[c]]

\* some other process creates a watched path
FsCreate(name) ==
    /\ fs[name] = "absent"
    /\ StatDir(Dir(name)) = "dir"
    /\ fs' = [fs EXCEPT ![name] = "ready"]
    /\ g' = Observe(name, TRUE)
    /\ w' = Notify(name)
    /\ UNCHANGED <<content, parentKind, kpending, mu, th, ret, hist, others>>

\* some other process removes a watched path
FsRemove(name) ==
    /\ fs[name] # "absent"
    /\ fs' = [fs EXCEPT ![name] = "absent"]
    /\ g' = Observe(name, FALSE)
    /\ w' = Notify(name)
    /\ UNCHANGED <<content, parentKind, kpending, mu, th, ret, hist, others>>

(* ------------------------------- gport --------------------------------- *)

GPIOInput == 0
GPIOOutput == 1
GPIOOutputLow == 2
GPIOOutputHigh == 3

direction_in == "in"
direction_out == "out"
direction_outlow == "low"
direction_outhi == "high"
low == "0"
high == "1"

PortOps ==
    {<<"IsEnabled", 0>>, <<"Enable", 0>>, <<"Reset", 0>>, <<"IsOutput", 0>>,
     <<"State", 0>>, <<"Value", 0>>, <<"SetValue", 0>>, <<"SetValue", 1>>}
    \cup {<<"SetMode", m>> : m \in GPIOInput .. GPIOOutputHigh + 1}

\* the files Enable waits for, in its order
EnableFiles(p) == <<folder(p), direction(p), value(p), edge(p)>>

\* the caller's locals reset at the start and at the end of a call
Fresh(t) ==
    [t EXCEPT !.retpc = "idle", !.name = "", !.timeout = 0, !.h = "nil",
              !.since = -1, !.remaining = 0, !.fidx = 0,
              !.sleep = -1, !.tA = -1, !.tB = -1]

\* where a method goes once it holds the lock
Entry(o) ==
    CASE o = "IsEnabled" -> "ie_check"
      [] o = "Enable" -> "en_check"
      [] o = "Reset" -> "rs_check"
      [] o = "State" -> "st_check"
      [] OTHER -> "ce_check"

\* (a lock that does not wait for its holder)
gport_lock_nowait(c, p) ==
    mu' = [mu EXCEPT ![p] = @ \cup {c}]

\* p.lock(): p.mu.Lock(), which waits until nobody holds p.mu
gport_lock(c, p) ==
    /\ mu[p] = {}
    /\ mu' = [mu EXCEPT ![p] = {c}]

\* a caller calls a method of a port: defer p.unlock(p.lock()).  A caller
\* waiting in p.lock() has done nothing yet that another goroutine can see,
\* so the call is taken to begin when it gets the lock.
PortCall(c) ==
    /\ th[c].pc \in {"idle", "ret"}
    /\ th[c].calls < MaxPortCalls
    /\ \E o \in PortOps, p \in Ports :
          /\ gport_lock(c, p)
          /\ th' = [th EXCEPT ![c] =
                      [Fresh(@) EXCEPT !.pc = Entry(o[1]), !.op = o[1],
                                       !.arg = o[2], !.port = p, !.err = "nil",
                                       !.val = "-", !.calls = @ + 1]]
    /\ g' = [g EXCEPT ![c] = GInit]
    /\ ret' = [ret EXCEPT ![c] = <<>>]
    /\ UNCHANGED <<fs, content, parentKind, kpending, w, hist, others>>

\* p.unlock(): p.mu.Unlock()
gport_unlock(c, p) ==
    mu' = [mu EXCEPT ![p] = @ \ {c}]

\* the method returns: its deferred p.unlock() runs and the caller has the
\* result (th[c].err, th[c].val) in hand
PortReturn(c) ==
    /\ th[c].pc = "unlock"
    /\ gport_unlock(c, th[c].port)
    /\ th' = [th EXCEPT ![c] =
                [Fresh(@) EXCEPT !.pc = "ret", !.op = "none", !.arg = 0,
                                 !.port = 0, !.err = "nil", !.val = "-"]]
    /\ g' = [g EXCEPT ![c] = GInit]
    /\ hist' = [hist EXCEPT ![th[c].port].okEnable =
                   @ \/ (/\ th[c].op = "Enable"
                         /\ th[c].err = "nil"
                         /\ Exists(folder(th[c].port))
                         /\ <<"unexport", th[c].port>> \notin kpending)]
    /\ UNCHANGED <<fs, content, parentKind, kpending, w, ret, others>>

\* return err (or a value) from a method: on to the deferred unlock
Return(t, err, val) == [t EXCEPT !.pc = "unlock", !.err = err, !.val = val]

Bool(b) == IF b THEN "true" ELSE "false"

\* IsEnabled: checkFile(p.folder)
IsEnabled(c) ==
    /\ th[c].pc = "ie_check"
    /\ th' = [th EXCEPT ![c] = Return(@, "nil", Bool(checkFile(folder(th[c].port))))]
    /\ UNCHANGED <<fs, content, parentKind, kpending, mu, w, ret, g, hist, others>>

\* (Enable without its first look at the folder)
Enable_check_always_export(c) ==
    /\ th[c].pc = "en_check"
    /\ g' = [g EXCEPT ![c].entry = Exists(folder(th[c].port))]
    /\ th' = [th EXCEPT ![c].pc = "en_export"]
    /\ UNCHANGED <<fs, content, parentKind, kpending, mu, w, ret, hist, others>>

\* (Enable that polls for readiness even when the folder is there)
Enable_check_then_poll(c) ==
    /\ th[c].pc = "en_check"
    /\ g' = [g EXCEPT ![c].entry = Exists(folder(th[c].port))]
    /\ IF checkFile(folder(th[c].port))
       THEN th' = [th EXCEPT ![c].pc = "en_delay", ![c].since = 0,
                             ![c].sleep = 2 * pollInterval]
       ELSE th' = [th EXCEPT ![c].pc = "en_export"]
    /\ UNCHANGED <<fs, content, parentKind, kpending, mu, w, ret, hist, others>>

\* Enable: if checkFile(p.folder) { return nil }
Enable_check(c) ==
    /\ th[c].pc = "en_check"
    /\ g' = [g EXCEPT ![c].entry = Exists(folder(th[c].port))]
    /\ IF checkFile(folder(th[c].port))
       THEN th' = [th EXCEPT ![c] = Return(@, "nil", "-")]
       ELSE th' = [th EXCEPT ![c].pc = "en_export"]
    /\ UNCHANGED <<fs, content, parentKind, kpending, mu, w, ret, hist, others>>

\* Enable: writeFile(p.export, p.sport); start := time.Now(); then into
\* awaitFileCreate(p.folder, timelimit)
Enable_export(c) ==
    /\ th[c].pc = "en_export"
    /\ LET p == th[c].port IN
       \E e \in writeFile(export, sport(p)) :
          /\ g' = [g EXCEPT ![c] = Log(c, <<"write", export, sport(p)>>)]
          /\ hist' = [hist EXCEPT ![p].nExport = @ + 1]
          /\ IF e # "nil"
             THEN /\ th' = [th EXCEPT ![c] = Return(@, e, "-")]
                  /\ UNCHANGED kpending
             ELSE /\ kpending' = kpending \cup {<<"export", q>> : q \in Target(sport(p))}
                  /\ th' = [th EXCEPT ![c] =
                              [@ EXCEPT !.pc = "afc_check", !.retpc = "en_recv",
                                        !.name = folder(p), !.timeout = timelimit,
                                        !.since = 0]]
    /\ UNCHANGED <<fs, content, parentKind, mu, w, ret, others>>

\* Enable: if err != nil { return err }; if err := <-ch; err != nil { return
\* err }; then the delay of two poll intervals
Enable_recv(c) ==
    /\ th[c].pc = "en_recv"
    /\ IF th[c].err # "nil"
       THEN /\ th' = [th EXCEPT ![c] = Return(@, th[c].err, "-")]
            /\ UNCHANGED ret
       ELSE /\ ret[c] # <<>>
            /\ ret' = [ret EXCEPT ![c] = Tail(@)]
            /\ IF Head(ret[c]) # "nil"
               THEN th' = [th EXCEPT ![c] = Return(@, Head(ret[c]), "-")]
               ELSE th' = [th EXCEPT ![c].pc = "en_delay",
                                     ![c].sleep = 2 * pollInterval]
    /\ g' = [g EXCEPT ![c] = WatchTaken(@)]
    /\ UNCHANGED <<fs, content, parentKind, kpending, mu, w, hist, others>>

\* Enable: <-time.After(pollInterval * 2), then the first file of the loop
Enable_delay(c) ==
    /\ th[c].pc = "en_delay"
    /\ th[c].sleep = 0
    /\ th' = [th EXCEPT ![c].pc = "en_probe", ![c].sleep = -1, ![c].fidx = 1]
    /\ UNCHANGED <<fs, content, parentKind, kpending, mu, w, ret, g, hist, others>>

Max0(n) == IF n > 0 THEN n ELSE 0

\* into the select of the loop: time.After(remaining), time.After(pollInterval)
EnterSelect(t, remaining) ==
    [t EXCEPT !.pc = "en_select", !.remaining = remaining,
              !.tA = Max0(remaining), !.tB = pollInterval]

\* Enable's loop: remaining := timelimit - time.Since(start); checkFile(fname)
Enable_probe(c) ==
    /\ th[c].pc = "en_probe"
    /\ LET fname == EnableFiles(th[c].port)[th[c].fidx]
           remaining == timelimit - th[c].since IN
       IF checkFile(fname)
       THEN th' = [th EXCEPT ![c].pc = "en_write", ![c].remaining = remaining]
       ELSE th' = [th EXCEPT ![c] = EnterSelect(@, remaining)]
    /\ UNCHANGED <<fs, content, parentKind, kpending, mu, w, ret, g, hist, others>>

\* (the probe with the two kinds of error exchanged: a refusal for lack of
\* permission counts as ready, any other error as not yet ready)
ProbeOk_perm_is_ready(err) == err = "nil" \/ IsPermission(err)

\* the test that ends the wait for one file
ProbeOk(err) == err = "nil" \/ ~IsPermission(err)

\* (the probe write made, its refusal not looked at)
Enable_write_any_is_ready(c) ==
    /\ th[c].pc = "en_write"
    /\ LET p == th[c].port
           fname == EnableFiles(p)[th[c].fidx] IN
       \E e \in writeFile(fname, " ") :
          /\ g' = [g EXCEPT ![c] =
                      [Log(c, <<"write", fname, " ">>)
                         EXCEPT !.obs = Append(@, <<fname, fs[fname]>>)]]
          /\ IF th[c].fidx = Len(EnableFiles(p))
             THEN th' = [th EXCEPT ![c] = Return(@, "nil", "-")]
             ELSE th' = [th EXCEPT ![c].pc = "en_probe", ![c].fidx = @ + 1]
    /\ UNCHANGED <<fs, content, parentKind, kpending, mu, w, ret, hist, others>>

\* Enable's loop: writeFile(fname, " "); break unless the write was refused
\* for lack of permission; after the last file return nil
Enable_write(c) ==
    /\ th[c].pc = "en_write"
    /\ LET p == th[c].port
           fname == EnableFiles(p)[th[c].fidx] IN
       \E e \in writeFile(fname, " ") :
          /\ IF ProbeOk(e)
             THEN /\ g' = [g EXCEPT ![c] =
                             [Log(c, <<"write", fname, " ">>)
                                EXCEPT !.obs = Append(@, <<fname, fs[fname]>>)]]
                  /\ IF th[c].fidx = Len(EnableFiles(p))
                     THEN th' = [th EXCEPT ![c] = Return(@, "nil", "-")]
                     ELSE th' = [th EXCEPT ![c].pc = "en_probe", ![c].fidx = @ + 1]
             ELSE /\ g' = [g EXCEPT ![c] = Log(c, <<"write", fname, " ">>)]
                  /\ th' = [th EXCEPT ![c] = EnterSelect(@, th[c].remaining)]
    /\ UNCHANGED <<fs, content, parentKind, kpending, mu, w, ret, hist, others>>

\* Enable's loop: the select between the time left and the next poll
Enable_select(c) ==
    /\ th[c].pc = "en_select"
    /\ \/ /\ th[c].tA = 0
          /\ th' = [th EXCEPT ![c] = Return(@, "timeout", "-")]
       \/ /\ th[c].tB = 0
          /\ th' = [th EXCEPT ![c].pc = "en_probe", ![c].tA = -1, ![c].tB = -1]
    /\ UNCHANGED <<fs, content, parentKind, kpending, mu, w, ret, g, hist, others>>

\* (Reset without its first look at the folder, as resetAsync of the earlier
\* gpio.go)
Reset_check_always_unexport(c) ==
    /\ th[c].pc = "rs_check"
    /\ g' = [g EXCEPT ![c].entry = Exists(folder(th[c].port))]
    /\ th' = [th EXCEPT ![c].pc = "rs_unexport"]
    /\ UNCHANGED <<fs, content, parentKind, kpending, mu, w, ret, hist, others>>

\* Reset: if !checkFile(p.folder) { return nil }
Reset_check(c) ==
    /\ th[c].pc = "rs_check"
    /\ g' = [g EXCEPT ![c].entry = Exists(folder(th[c].port))]
    /\ IF ~checkFile(folder(th[c].port))
       THEN th' = [th EXCEPT ![c] = Return(@, "nil", "-")]
       ELSE th' = [th EXCEPT ![c].pc = "rs_unexport"]
    /\ UNCHANGED <<fs, content, parentKind, kpending, mu, w, ret, hist, others>>

\* Reset: writeFile(p.unexport, p.sport), then into
\* awaitFileRemove(p.folder, timelimit)
Reset_unexport(c) ==
    /\ th[c].pc = "rs_unexport"
    /\ LET p == th[c].port IN
       \E e \in writeFile(unexport, sport(p)) :
          /\ g' = [g EXCEPT ![c] = [Log(c, <<"write", unexport, sport(p)>>)
                                      EXCEPT !.unexports = @ + 1]]
          /\ hist' = [hist EXCEPT ![p].okEnable = FALSE]
          /\ IF e # "nil"
             THEN /\ th' = [th EXCEPT ![c] = Return(@, e, "-")]
                  /\ UNCHANGED kpending
             ELSE /\ kpending' = kpending \cup {<<"unexport", q>> : q \in Target(sport(p))}
                  /\ th' = [th EXCEPT ![c] =
                              [@ EXCEPT !.pc = "afr_check", !.retpc = "rs_recv",
                                        !.name = folder(p), !.timeout = timelimit]]
    /\ UNCHANGED <<fs, content, parentKind, mu, w, ret, others>>

\* (Reset that returns without receiving from the channel)
Reset_recv_nowait(c) ==
    /\ th[c].pc = "rs_recv"
    /\ th' = [th EXCEPT ![c] = Return(@, th[c].err, "-")]
    /\ UNCHANGED <<fs, content, parentKind, kpending, mu, w, ret, g, hist, others>>

\* Reset: if err != nil { return err }; if err := <-ch; err != nil { return
\* err }; return nil
Reset_recv(c) ==
    /\ th[c].pc = "rs_recv"
    /\ IF th[c].err # "nil"
       THEN /\ th' = [th EXCEPT ![c] = Return(@, th[c].err, "-")]
            /\ UNCHANGED ret
       ELSE /\ ret[c] # <<>>
            /\ ret' = [ret EXCEPT ![c] = Tail(@)]
            /\ th' = [th EXCEPT ![c] = Return(@, Head(ret[c]), "-")]
    /\ UNCHANGED <<fs, content, parentKind, kpending, mu, w, g, hist, others>>

\* (a checkEnabled that lets every call through)
checkEnabled_always_ok(c) ==
    /\ th[c].pc = "ce_check"
    /\ g' = [g EXCEPT ![c].entry = Exists(folder(th[c].port))]
    /\ th' = [th EXCEPT ![c].pc =
                 CASE th[c].op = "SetMode" -> "sm_write"
                   [] th[c].op = "IsOutput" -> "io_read"
                   [] th[c].op = "Value" -> "va_read"
                   [] OTHER -> "sv_write"]
    /\ UNCHANGED <<fs, content, parentKind, kpending, mu, w, ret, hist, others>>

\* checkEnabled, at the head of SetMode, IsOutput, Value and SetValue
checkEnabled(c) ==
    /\ th[c].pc = "ce_check"
    /\ g' = [g EXCEPT ![c].entry = Exists(folder(th[c].port))]
    /\ IF checkFile(folder(th[c].port))
       THEN th' = [th EXCEPT ![c].pc =
                      CASE th[c].op = "SetMode" -> "sm_write"
                        [] th[c].op = "IsOutput" -> "io_read"
                        [] th[c].op = "Value" -> "va_read"
                        [] OTHER -> "sv_write"]
       ELSE th' = [th EXCEPT ![c] = Return(@, "notenabled", "-")]
    /\ UNCHANGED <<fs, content, parentKind, kpending, mu, w, ret, hist, others>>

\* (the tokens in the order of the modes of the older GPIOMode)
ModeToken_old_enum(mode) ==
    CASE mode = 0 -> direction_outlow
      [] mode = 1 -> direction_outhi
      [] mode = 2 -> direction_in
      [] OTHER -> ""

\* the token SetMode writes for a mode, "" for a mode that does not exist
ModeToken(mode) ==
    CASE mode = GPIOInput -> direction_in
      [] mode = GPIOOutput -> direction_out
      [] mode = GPIOOutputHigh -> direction_outhi
      [] mode = GPIOOutputLow -> direction_outlow
      [] OTHER -> ""

\* what the kernel makes of a token written to the direction file
DirectionAfter(p, token) ==
    [content EXCEPT
        ![direction(p)] = IF token = direction_in THEN "in" ELSE "out",
        ![value(p)] = CASE token = direction_outhi -> high
                        [] token = direction_outlow -> low
                        [] OTHER -> @]

\* SetMode: writeDirection(token), or an error for a mode that does not exist
SetMode(c) ==
    /\ th[c].pc = "sm_write"
    /\ LET p == th[c].port
           token == ModeToken(th[c].arg) IN
       IF token = ""
       THEN /\ th' = [th EXCEPT ![c] = Return(@, "nomode", "-")]
            /\ UNCHANGED <<content, g>>
       ELSE \E e \in writeFile(direction(p), token) :
               /\ th' = [th EXCEPT ![c] = Return(@, e, "-")]
               /\ g' = [g EXCEPT ![c] = Log(c, <<"write", direction(p), token>>)]
               /\ content' = IF e = "nil" THEN DirectionAfter(p, token) ELSE content
    /\ UNCHANGED <<fs, parentKind, kpending, mu, w, ret, hist, others>>

\* IsOutput: readDirection(); d != "in"
IsOutput(c) ==
    /\ th[c].pc = "io_read"
    /\ LET r == readFile(direction(th[c].port)) IN
       /\ th' = [th EXCEPT ![c] =
                    IF r[2] # "nil" THEN Return(@, r[2], "false")
                    ELSE Return(@, "nil", Bool(r[1] # "in"))]
       /\ g' = [g EXCEPT ![c] = Log(c, <<"read", direction(th[c].port), r[1]>>)]
    /\ UNCHANGED <<fs, content, parentKind, kpending, mu, w, ret, hist, others>>

\* Value: readValue(); d == "1"
Value(c) ==
    /\ th[c].pc = "va_read"
    /\ LET r == readFile(value(th[c].port)) IN
       /\ th' = [th EXCEPT ![c] =
                    IF r[2] # "nil" THEN Return(@, r[2], "false")
                    ELSE Return(@, "nil", Bool(r[1] = "1"))]
       /\ g' = [g EXCEPT ![c] = Log(c, <<"read", value(th[c].port), r[1]>>)]
    /\ UNCHANGED <<fs, content, parentKind, kpending, mu, w, ret, hist, others>>

\* SetValue: writeValue(high or low); the kernel takes the value of an output
SetValue(c) ==
    /\ th[c].pc = "sv_write"
    /\ LET p == th[c].port
           val == IF th[c].arg = 1 THEN high ELSE low IN
       \E e \in writeFile(value(p), val) :
          /\ e = "nil" => content[direction(p)] = "out"
          /\ th' = [th EXCEPT ![c] = Return(@, e, "-")]
          /\ g' = [g EXCEPT ![c] = Log(c, <<"write", value(p), val>>)]
          /\ content' = IF e = "nil" THEN [content EXCEPT ![value(p)] = val]
                        ELSE content
    /\ UNCHANGED <<fs, parentKind, kpending, mu, w, ret, hist, others>>

\* State: "Reset" without the folder, else the direction and the value read
State(c) ==
    /\ th[c].pc \in {"st_check", "st_dir", "st_val"}
    /\ LET p == th[c].port
           rd == readFile(direction(p))
           rv == readFile(value(p)) IN
       CASE th[c].pc = "st_check" ->
              /\ th' = [th EXCEPT ![c] =
                          IF ~checkFile(folder(p)) THEN Return(@, "nil", "Reset")
                          ELSE [@ EXCEPT !.pc = "st_dir"]]
              /\ g' = [g EXCEPT ![c].entry = Exists(folder(p))]
         [] th[c].pc = "st_dir" ->
              /\ th' = [th EXCEPT ![c] =
                          IF rd[2] # "nil" THEN Return(@, "nil", rd[2])
                          ELSE [@ EXCEPT !.pc = "st_val", !.val = rd[1]]]
              /\ g' = [g EXCEPT ![c] = Log(c, <<"read", direction(p), "">>)]
         [] OTHER ->
              /\ th' = [th EXCEPT ![c] =
                          IF rv[2] # "nil" THEN Return(@, "nil", rv[2])
                          ELSE Return(@, "nil", th[c].val \o " with value " \o rv[1])]
              /\ g' = [g EXCEPT ![c] = Log(c, <<"read", value(p), "">>)]
    /\ UNCHANGED <<fs, content, parentKind, kpending, mu, w, ret, hist, others>>

(* -------------------------------- kernel ------------------------------- *)

\* the kernel creates the control folder of an exported line; its files
\* follow
KernelExport(p) ==
    /\ <<"export", p>> \in kpending
    /\ kpending' = kpending \ {<<"export", p>>}
    /\ IF fs[folder(p)] = "absent"
       THEN /\ fs' = [fs EXCEPT ![folder(p)] = "ready"]
            /\ content' = [content EXCEPT ![direction(p)] = "in", ![value(p)] = "0"]
       ELSE UNCHANGED <<fs, content>>
    /\ UNCHANGED <<parentKind, mu, th, w, ret, g, hist, others>>

\* a control file appears, first without, then with the permission to write
KernelFile(p) ==
    /\ fs[folder(p)] # "absent"
    /\ \E f \in CtlFiles(p) :
          /\ fs[f] # "ready"
          /\ fs' = [fs EXCEPT ![f] = IF @ = "absent" THEN "denied" ELSE "ready"]
    /\ UNCHANGED <<content, parentKind, kpending, mu, th, w, ret, g, hist, others>>

\* the kernel removes the control folder of an unexported line, files and all
KernelUnexport(p) ==
    /\ <<"unexport", p>> \in kpending
    /\ kpending' = kpending \ {<<"unexport", p>>}
    /\ fs' = [n \in Paths |->
                IF n \in CtlFiles(p) \cup {folder(p)} THEN "absent" ELSE fs[n]]
    /\ content' = [content EXCEPT ![direction(p)] = "in", ![value(p)] = "0"]
    /\ UNCHANGED <<parentKind, mu, th, w, ret, g, hist, others>>

(* --------------------------------- time -------------------------------- *)

CallerBlocked(c) ==
    LET t == th[c] IN
    CASE t.pc \in {"idle", "ret", "have"} -> TRUE
      [] t.pc \in {"en_recv", "rs_recv"} -> t.err = "nil" /\ ret[c] = <<>>
      [] t.pc = "en_delay" -> t.sleep > 0
      [] t.pc = "en_select" -> t.tA > 0 /\ t.tB > 0
      [] OTHER -> FALSE

WatcherBlocked(c) ==
    \/ w[c].pc = "none"
    \/ w[c].pc = "select" /\ w[c].tout > 0 /\ ~w[c].interval
    \/ w[c].pc = "nselect" /\ w[c].tout > 0 /\ ~w[c].events
    \/ w[c].pc \in {"send", "nsend"} /\ Len(ret[c]) >= retCap

TimerRunning(c) ==
    \/ w[c].pc \in {"select", "nselect"}
    \/ th[c].pc \in {"en_delay", "en_select"}

Dec1(n) == IF n > 0 THEN n - 1 ELSE n

\* one poll interval passes
Tick ==
    /\ \A c \in Callers : CallerBlocked(c) /\ WatcherBlocked(c)
    /\ \E c \in Callers : TimerRunning(c)
    /\ w' = [c \in Callers |->
                IF w[c].pc = "none" THEN w[c]
                ELSE [w[c] EXCEPT !.tout = Dec1(@),
                                  !.interval = w[c].pc \in {"check", "select", "send"}]]
    /\ th' = [c \in Callers |->
                [th[c] EXCEPT !.sleep = Dec1(@), !.tA = Dec1(@), !.tB = Dec1(@),
                              !.since = IF @ >= 0 THEN @ + 1 ELSE @]]
    /\ g' = [c \in Callers |->
                IF g[c].active THEN [g[c] EXCEPT !.elapsed = @ + 1] ELSE g[c]]
    /\ UNCHANGED <<fs, content, parentKind, kpending, mu, ret, hist, others>>

(* --------------------------------- Pi ---------------------------------- *)

\* Pi values built in one run, and calls each caller makes on them
MaxPis == 2
MaxPiCalls == 2

\* the line numbers callers ask for
Lines == 16 .. 18

\* the revisions callers hand to GetDetailsFor, the last in no table
Revisions == {"0002", "a02082", "ffffff"}

\* what /sys/class/gpio may hold at init(): no gpiochip (or no folder at all),
\* one chip, or two of which one has a base or ngpio file that cannot be read
ChipSets ==
    { {},
      {[base |-> 17, ngpio |-> 1, readable |-> TRUE]},
      {[base |-> 16, ngpio |-> 2, readable |-> TRUE],
       [base |-> 18, ngpio |-> 1, readable |-> FALSE]} }

\* setAvailableGPIOs: base .. base+ngpio-1 of every gpiochip whose files read
setAvailableGPIOs(chips) ==
    UNION {IF ch.readable THEN ch.base .. (ch.base + ch.ngpio - 1) ELSE {} :
           ch \in chips}

sys_model == "sys/firmware/devicetree/base/model"
proc_cpuinfo == "proc/cpuinfo"

GPIO26HeaderV1 ==
    <<14, 15, 18, 23, 24, 25, 8, 7,
      0, 1, 4, 17, 21, 22, 10, 9, 11>>

GPIO26HeaderV2 ==
    <<14, 15, 18, 23, 24, 25, 8, 7,
      2, 3, 4, 17, 27, 22, 10, 9, 11>>

\* setModelMaps: the revisions of each P1 header
modelMaps ==
    [k \in {"26v10", "26v20", "40v10"} |->
       CASE k = "26v10" -> {"Beta", "0002", "0003"}
         [] k = "26v20" -> {"0004", "0005", "0006", "0007", "0008", "0009",
                            "000d", "000e", "000f"}
         [] OTHER -> {"0010", "0011", "0012", "0013", "0014", "0015",
                      "a01040", "a01041", "a21041", "a22042", "900021",
                      "900092", "900093", "920093", "a02082", "a22082"}]

\* findRevisionMap: the header name of a revision, "" for an unknown one
findRevisionMap(revision) ==
    IF \E k \in DOMAIN modelMaps : revision \in modelMaps[k]
    THEN CHOOSE k \in DOMAIN modelMaps : revision \in modelMaps[k]
    ELSE ""

RECURSIVE Insert(_, _)
\* x put into the sorted sequence q at its place
Insert(x, q) ==
    IF q = <<>> THEN <<x>>
    ELSE IF x <= Head(q) THEN <<x>> \o q
    ELSE <<Head(q)>> \o Insert(x, Tail(q))

RECURSIVE SortInts(_)
\* sort.Ints
SortInts(q) == IF q = <<>> THEN <<>> ELSE Insert(Head(q), SortInts(Tail(q)))

\* buildPi: the pins of the header found for the revision (def := "40V10"
\* for an unknown revision; the switch has the cases "26v10", "26v20" and
\* "40v10" and leaves pins nil otherwise), sorted; a new Pi value with an
\* empty portctrl map
buildPi(revision, model) ==
    LET def == "40V10"
        pinMap == IF findRevisionMap(revision) = "" THEN def
                  ELSE findRevisionMap(revision)
        pins == CASE pinMap = "26v10" -> GPIO26HeaderV1
                  [] pinMap = "26v20" -> GPIO26HeaderV2
                  [] pinMap = "40v10" -> GPIO40HeaderV1
                  [] OTHER -> <<>>
    IN [revision |-> revision, model |-> model, gpioports |-> SortInts(pins)]

GpInit ==
    [pc |-> "idle", op |-> "none", pi |-> 0, port |-> 0, rev |-> "",
     pctrl |-> 0, res |-> 0, err |-> "nil", calls |-> 0, io |-> {}]

\* the Pi world at rest, for the specifications that do not touch it
PiIdle ==
    /\ availableGPIO = {}
    /\ sysReadable = TRUE
    /\ getdetails = "new"
    /\ host = 0
    /\ pis = <<>>
    /\ portctrl = [i \in 1 .. MaxPis |-> [l \in Lines |-> 0]]
    /\ pimu = [i \in 1 .. MaxPis |-> {}]
    /\ objs = <<>>
    /\ gp = [c \in Callers |-> GpInit]
    /\ got = {}
    /\ crashed = FALSE

\* a caller calls GetPi, GetDetailsFor, or GetPort on a Pi value built before
PiCall(c) ==
    /\ ~crashed
    /\ gp[c].pc = "idle"
    /\ gp[c].calls < MaxPiCalls
    /\ \E o \in {"GetPi", "GetDetailsFor", "GetPort"}, r \in Revisions,
          i \in 1 .. MaxPis, l \in Lines :
          /\ o = "GetPi" => (getdetails = "done" \/ Len(pis) < MaxPis)
                            /\ r = "0002" /\ i = 1 /\ l = 16
          /\ o = "GetDetailsFor" => Len(pis) < MaxPis /\ i = 1 /\ l = 16
          /\ o = "GetPort" => i <= Len(pis) /\ r = "0002"
          /\ gp' = [gp EXCEPT ![c] =
                      [GpInit EXCEPT !.op = o, !.calls = gp[c].calls + 1,
                                     !.pi = IF o = "GetPort" THEN i ELSE 0,
                                     !.port = IF o = "GetPort" THEN l ELSE 0,
                                     !.rev = IF o = "GetDetailsFor" THEN r ELSE "",
                                     !.pc = CASE o = "GetPi" -> "gpi"
                                              [] o = "GetDetailsFor" -> "gdf"
                                              [] OTHER -> "gp_avail"]]
    /\ UNCHANGED <<availableGPIO, sysReadable, getdetails, host, pis, portctrl,
                   pimu, objs, got, crashed, sysvars, monvars, extra>>

\* GetPi: getdetails.Do(initOnce); return host.  initOnce reads the model and
\* the cpuinfo file and panics when it cannot, else host = buildPi(...)
GetPi(c) ==
    /\ ~crashed
    /\ gp[c].pc = "gpi"
    /\ IF getdetails = "new"
       THEN /\ getdetails' = "done"
            /\ IF sysReadable
               THEN /\ pis' = Append(pis, buildPi("a02082", "model"))
                    /\ host' = Len(pis) + 1
                    /\ crashed' = FALSE
                    /\ gp' = [gp EXCEPT ![c].pc = "pi_ret", ![c].res = Len(pis) + 1,
                                        ![c].io = {<<"read", sys_model>>,
                                                   <<"read", proc_cpuinfo>>}]
               ELSE /\ crashed' = TRUE
                    /\ gp' = [gp EXCEPT ![c].pc = "panic",
                                        ![c].io = {<<"read", sys_model>>}]
                    /\ UNCHANGED <<pis, host>>
       ELSE /\ gp' = [gp EXCEPT ![c].pc = "pi_ret", ![c].res = host]
            /\ UNCHANGED <<getdetails, pis, host, crashed>>
    /\ UNCHANGED <<availableGPIO, sysReadable, portctrl, pimu, objs, got,
                   sysvars, monvars, extra>>

\* GetDetailsFor: return buildPi(revision, model)
GetDetailsFor(c) ==
    /\ ~crashed
    /\ gp[c].pc = "gdf"
    /\ pis' = Append(pis, buildPi(gp[c].rev, "model"))
    /\ gp' = [gp EXCEPT ![c].pc = "pi_ret", ![c].res = Len(pis) + 1]
    /\ UNCHANGED <<availableGPIO, sysReadable, getdetails, host, portctrl, pimu,
                   objs, got, crashed, sysvars, monvars, extra>>

\* (GetPort without the test of availableGPIO)
GetPort_avail_unchecked(c) ==
    /\ ~crashed
    /\ gp[c].pc = "gp_avail"
    /\ gp' = [gp EXCEPT ![c].pc = "gp_lock"]
    /\ UNCHANGED <<availableGPIO, sysReadable, getdetails, host, pis, portctrl,
                   pimu, objs, got, crashed, sysvars, monvars, extra>>

\* GetPort: if !availableGPIO[port] { return nil, error }
GetPort_avail(c) ==
    /\ ~crashed
    /\ gp[c].pc = "gp_avail"
    /\ IF gp[c].port \notin availableGPIO
       THEN gp' = [gp EXCEPT ![c].pc = "gp_ret", ![c].res = 0,
                             ![c].err = "notavailable"]
       ELSE gp' = [gp EXCEPT ![c].pc = "gp_lock"]
    /\ UNCHANGED <<availableGPIO, sysReadable, getdetails, host, pis, portctrl,
                   pimu, objs, got, crashed, sysvars, monvars, extra>>

\* (a lock that does not wait for its holder)
pi_lock_nowait(c) ==
    /\ ~crashed
    /\ gp[c].pc = "gp_lock"
    /\ pimu' = [pimu EXCEPT ![gp[c].pi] = @ \cup {c}]
    /\ gp' = [gp EXCEPT ![c].pc = "gp_lookup"]
    /\ UNCHANGED <<availableGPIO, sysReadable, getdetails, host, pis, portctrl,
                   objs, got, crashed, sysvars, monvars, extra>>

\* pi.lock(): p.mu.Lock()
pi_lock(c) ==
    /\ ~crashed
    /\ gp[c].pc = "gp_lock"
    /\ pimu[gp[c].pi] = {}
    /\ pimu' = [pimu EXCEPT ![gp[c].pi] = {c}]
    /\ gp' = [gp EXCEPT ![c].pc = "gp_lookup"]
    /\ UNCHANGED <<availableGPIO, sysReadable, getdetails, host, pis, portctrl,
                   objs, got, crashed, sysvars, monvars, extra>>

\* GetPort: pctrl, ok := p.portctrl[port]; if ok { return pctrl, nil }
GetPort_lookup(c) ==
    /\ ~crashed
    /\ gp[c].pc = "gp_lookup"
    /\ LET cached == portctrl[gp[c].pi][gp[c].port] IN
       IF cached # 0
       THEN gp' = [gp EXCEPT ![c].pc = "gp_unlock", ![c].pctrl = cached,
                             ![c].res = cached]
       ELSE gp' = [gp EXCEPT ![c].pc = "gp_new"]
    /\ UNCHANGED <<availableGPIO, sysReadable, getdetails, host, pis, portctrl,
                   pimu, objs, got, crashed, sysvars, monvars, extra>>

\* GetPort: pctrl = newGPIO(p, port)
GetPort_new(c) ==
    /\ ~crashed
    /\ gp[c].pc = "gp_new"
    /\ objs' = Append(objs, <<gp[c].pi, gp[c].port>>)
    /\ gp' = [gp EXCEPT ![c].pc = "gp_store", ![c].pctrl = Len(objs) + 1]
    /\ UNCHANGED <<availableGPIO, sysReadable, getdetails, host, pis, portctrl,
                   pimu, got, crashed, sysvars, monvars, extra>>

\* GetPort: p.portctrl[port] = pctrl; return pctrl, nil
GetPort_store(c) ==
    /\ ~crashed
    /\ gp[c].pc = "gp_store"
    /\ portctrl' = [portctrl EXCEPT ![gp[c].pi][gp[c].port] = gp[c].pctrl]
    /\ gp' = [gp EXCEPT ![c].pc = "gp_unlock", ![c].res = gp[c].pctrl]
    /\ UNCHANGED <<availableGPIO, sysReadable, getdetails, host, pis, pimu,
                   objs, got, crashed, sysvars, monvars, extra>>

\* the deferred pi.unlock(): p.mu.Unlock()
pi_unlock(c) ==
    /\ ~crashed
    /\ gp[c].pc = "gp_unlock"
    /\ pimu' = [pimu EXCEPT ![gp[c].pi] = @ \ {c}]
    /\ gp' = [gp EXCEPT ![c].pc = "gp_ret"]
    /\ UNCHANGED <<availableGPIO, sysReadable, getdetails, host, pis, portctrl,
                   objs, got, crashed, sysvars, monvars, extra>>

\* the caller has the result of its call
PiReturn(c) ==
    /\ ~crashed
    /\ gp[c].pc \in {"gp_ret", "pi_ret"}
    /\ got' = IF gp[c].pc = "gp_ret" /\ gp[c].err = "nil"
              THEN got \cup {<<gp[c].pi, gp[c].port, gp[c].res>>}
              ELSE got
    /\ gp' = [gp EXCEPT ![c].pc = "idle"]
    /\ UNCHANGED <<availableGPIO, sysReadable, getdetails, host, pis, portctrl,
                   pimu, objs, crashed, sysvars, monvars, extra>>

(* ----------------------------- edge monitor ---------------------------- *)

\* largest capacity of the event channel, changes of the value file the
\* environment makes, and calls of the stop function per caller
MaxBuffer == 2
MaxTransitions == 3
MaxKills == 2

\* killer := make(chan bool, 1)
killerCap == 1

\* what the value file holds: the kernel writes the digit and a newline
Raw(bit) == IF bit = 1 THEN "1\n" ELSE "0\n"

\* strings.TrimSpace on the contents a value file can have
TrimSpace(str) ==
    CASE str \in {"1\n", " 1", "1"} -> "1"
      [] str \in {"0\n", " 0", "0"} -> "0"
      [] OTHER -> ""

MdInit ==
    [pc |-> "none", ready |-> FALSE, stamp |-> 0, val |-> FALSE, why |-> "-"]

\* the monitor world at rest, for the specifications that do not touch it
MonIdle ==
    /\ buffersize = 0
    /\ md = MdInit
    /\ data = <<>>
    /\ closes = [data |-> 0, valf |-> 0]
    /\ killer = <<>>
    /\ vfile = [bit |-> 0, notify |-> FALSE, changes |-> 0]
    /\ now = 0
    /\ rx = [got |-> <<>>, waiting |-> FALSE, sawClosed |-> FALSE]
    /\ reads = <<>>
    /\ kc = [c \in Callers |-> [pc |-> "idle", calls |-> 0]]

\* buildMonitor: os.Open(fname), which may fail; make the killer and the data
\* channel; go monitorData(valf, data, killer), which starts with ready = true
buildMonitor ==
    /\ md.pc = "none"
    /\ \E e \in {"nil", "open"} :
          /\ md' = IF e = "nil" THEN [MdInit EXCEPT !.pc = "top", !.ready = TRUE]
                   ELSE [MdInit EXCEPT !.pc = "failed", !.why = e]
    /\ UNCHANGED <<buffersize, data, closes, killer, vfile, now, rx, reads, kc,
                   sysvars, pivars, extra>>

\* monitorData, top of the loop: if ready { stamp := time.Now(); ready = false
\* ...}.  Two readings of the clock are at least one unit apart.
mon_top ==
    /\ md.pc = "top"
    /\ IF md.ready
       THEN /\ md' = [md EXCEPT !.pc = "seek", !.ready = FALSE, !.stamp = now]
            /\ now' = now + 1
       ELSE /\ md' = [md EXCEPT !.pc = "killcheck"]
            /\ UNCHANGED now
    /\ UNCHANGED <<buffersize, data, closes, killer, vfile, rx, reads, kc,
                   sysvars, pivars, extra>>

\* valf.Seek(0, 0), which may fail
mon_seek ==
    /\ md.pc = "seek"
    /\ \E e \in {"nil", "seek"} :
          md' = IF e = "nil" THEN [md EXCEPT !.pc = "read"]
                ELSE [md EXCEPT !.pc = "exit", !.why = e]
    /\ UNCHANGED <<buffersize, data, closes, killer, vfile, now, rx, reads, kc,
                   sysvars, pivars, extra>>

\* (the read of the earlier monitorData: the content compared untrimmed)
mon_read_untrimmed ==
    /\ md.pc = "read"
    /\ \E e \in {"nil", "read"} :
          IF e = "nil"
          THEN /\ md' = [md EXCEPT !.pc = "send", !.val = (Raw(vfile.bit) = "1")]
               /\ reads' = Append(reads, Raw(vfile.bit))
               /\ vfile' = [vfile EXCEPT !.notify = FALSE]
          ELSE /\ md' = [md EXCEPT !.pc = "exit", !.why = e]
               /\ UNCHANGED <<reads, vfile>>
    /\ UNCHANGED <<buffersize, data, closes, killer, now, rx, kc, sysvars, pivars, extra>>

\* n, err := valf.Read(buff), which may fail; got := TrimSpace(buff[:n]);
\* val := got == "1".  The read takes note of the file's change.
mon_read ==
    /\ md.pc = "read"
    /\ \E e \in {"nil", "read"} :
          IF e = "nil"
          THEN /\ md' = [md EXCEPT !.pc = "send",
                                   !.val = (TrimSpace(Raw(vfile.bit)) = "1")]
               /\ reads' = Append(reads, Raw(vfile.bit))
               /\ vfile' = [vfile EXCEPT !.notify = FALSE]
          ELSE /\ md' = [md EXCEPT !.pc = "exit", !.why = e]
               /\ UNCHANGED <<reads, vfile>>
    /\ UNCHANGED <<buffersize, data, closes, killer, now, rx, kc, sysvars, pivars, extra>>

\* the send can go ahead: room in the buffer, or a receiver waiting
CanSend == Len(data) < buffersize \/ (rx.waiting /\ data = <<>>)

\* the channel after a send of ev: handed to a waiting receiver, or buffered
AfterSend(ev) ==
    IF rx.waiting /\ data = <<>>
    THEN <<data, [rx EXCEPT !.got = Append(@, ev), !.waiting = FALSE]>>
    ELSE <<Append(data, ev), rx>>

\* (a send that waits for room: select without the default case)
mon_send_blocking ==
    /\ md.pc = "send"
    /\ \/ /\ CanSend
          /\ data' = AfterSend(<<md.val, md.stamp>>)[1]
          /\ rx' = AfterSend(<<md.val, md.stamp>>)[2]
          /\ md' = [md EXCEPT !.pc = "killcheck"]
          /\ UNCHANGED killer
       \/ /\ killer # <<>>
          /\ killer' = Tail(killer)
          /\ md' = [md EXCEPT !.pc = "exit", !.why = "stop"]
          /\ UNCHANGED <<data, rx>>
    /\ UNCHANGED <<buffersize, closes, vfile, now, reads, kc, sysvars, pivars, extra>>

\* select { case data <- event: ; case <-killer: return ; default: return }
mon_send ==
    /\ md.pc = "send"
    /\ \/ /\ CanSend
          /\ data' = AfterSend(<<md.val, md.stamp>>)[1]
          /\ rx' = AfterSend(<<md.val, md.stamp>>)[2]
          /\ md' = [md EXCEPT !.pc = "killcheck"]
          /\ UNCHANGED killer
       \/ /\ killer # <<>>
          /\ killer' = Tail(killer)
          /\ md' = [md EXCEPT !.pc = "exit", !.why = "stop"]
          /\ UNCHANGED <<data, rx>>
       \/ /\ ~CanSend
          /\ killer = <<>>
          /\ md' = [md EXCEPT !.pc = "exit", !.why = "overflow"]
          /\ UNCHANGED <<data, rx, killer>>
    /\ UNCHANGED <<buffersize, closes, vfile, now, reads, kc, sysvars, pivars, extra>>

\* (a loop without the test of the killer channel between the delivery and
\* the wait)
mon_killcheck_skipped ==
    /\ md.pc = "killcheck"
    /\ md' = [md EXCEPT !.pc = "poll"]
    /\ UNCHANGED <<buffersize, data, closes, killer, vfile, now, rx, reads, kc,
                   sysvars, pivars, extra>>

\* select { case <-killer: return ; default: }
mon_killcheck ==
    /\ md.pc = "killcheck"
    /\ IF killer # <<>>
       THEN /\ killer' = Tail(killer)
            /\ md' = [md EXCEPT !.pc = "exit", !.why = "stop"]
       ELSE /\ md' = [md EXCEPT !.pc = "poll"]
            /\ UNCHANGED killer
    /\ UNCHANGED <<buffersize, data, closes, vfile, now, rx, reads, kc,
                   sysvars, pivars, extra>>

\* (a wait whose timeout counts as readiness)
mon_poll_timeout_ready ==
    /\ md.pc = "poll"
    /\ \/ md' = [md EXCEPT !.pc = "exit", !.why = "poll"]
       \/ md' = [md EXCEPT !.pc = "top", !.ready = TRUE]
    /\ UNCHANGED <<buffersize, data, closes, killer, vfile, now, rx, reads, kc,
                   sysvars, pivars, extra>>

\* state, err := unix.Poll(pollspec, timeout): an error, the file's change
\* (state > 0: ready = true), or after the timeout state = 0
mon_poll ==
    /\ md.pc = "poll"
    /\ \/ md' = [md EXCEPT !.pc = "exit", !.why = "poll"]
       \/ /\ vfile.notify
          /\ md' = [md EXCEPT !.pc = "top", !.ready = TRUE]
       \/ /\ ~vfile.notify
          /\ md' = [md EXCEPT !.pc = "top"]
    /\ UNCHANGED <<buffersize, data, closes, killer, vfile, now, rx, reads, kc,
                   sysvars, pivars, extra>>

\* (a return that leaves the event channel open)
mon_exit_noclose ==
    /\ md.pc = "exit"
    /\ closes' = [closes EXCEPT !.valf = @ + 1]
    /\ md' = [md EXCEPT !.pc = "done"]
    /\ UNCHANGED <<buffersize, data, killer, vfile, now, rx, reads, kc,
                   sysvars, pivars, extra>>

\* every return runs the deferred function: close(data); valf.Close()
mon_exit ==
    /\ md.pc = "exit"
    /\ closes' = [closes EXCEPT !.data = @ + 1, !.valf = @ + 1]
    /\ md' = [md EXCEPT !.pc = "done"]
    /\ UNCHANGED <<buffersize, data, killer, vfile, now, rx, reads, kc,
                   sysvars, pivars, extra>>

\* (a stop function that waits for room in the killer channel)
killfn_blocking(c) ==
    /\ kc[c].pc = "kill"
    /\ Len(killer) < killerCap
    /\ killer' = Append(killer, TRUE)
    /\ kc' = [kc EXCEPT ![c].pc = "idle"]
    /\ UNCHANGED <<buffersize, md, data, closes, vfile, now, rx, reads,
                   sysvars, pivars, extra>>

\* killfn: select { case killer <- true: ; default: }
killfn(c) ==
    /\ kc[c].pc = "kill"
    /\ killer' = IF Len(killer) < killerCap THEN Append(killer, TRUE) ELSE killer
    /\ kc' = [kc EXCEPT ![c].pc = "idle"]
    /\ UNCHANGED <<buffersize, md, data, closes, vfile, now, rx, reads,
                   sysvars, pivars, extra>>

\* a holder of the stop function calls it
KillCall(c) ==
    /\ md.pc \notin {"none", "failed"}
    /\ kc[c].pc = "idle"
    /\ kc[c].calls < MaxKills
    /\ kc' = [kc EXCEPT ![c].pc = "kill", ![c].calls = @ + 1]
    /\ UNCHANGED <<buffersize, md, data, closes, killer, vfile, now, rx, reads,
                   sysvars, pivars, extra>>

\* the consumer receives an event, finds the channel closed and empty, or
\* (the channel empty and open) waits in its receive
Receive ==
    /\ md.pc \notin {"none", "failed"}
    /\ ~rx.waiting
    /\ ~rx.sawClosed
    /\ IF data # <<>>
       THEN /\ rx' = [rx EXCEPT !.got = Append(@, Head(data))]
            /\ data' = Tail(data)
       ELSE /\ rx' = IF closes.data > 0 THEN [rx EXCEPT !.sawClosed = TRUE]
                     ELSE [rx EXCEPT !.waiting = TRUE]
            /\ UNCHANGED data
    /\ UNCHANGED <<buffersize, md, closes, killer, vfile, now, reads, kc,
                   sysvars, pivars, extra>>

\* a consumer waiting in its receive when the channel is closed
ReceiveClosed ==
    /\ rx.waiting
    /\ closes.data > 0
    /\ rx' = [rx EXCEPT !.waiting = FALSE, !.sawClosed = TRUE]
    /\ UNCHANGED <<buffersize, md, data, closes, killer, vfile, now, reads, kc,
                   sysvars, pivars, extra>>

\* the line changes (or the kernel signals a change that left the level as it
\* was): the value file has the new level and polls ready
Transition ==
    /\ vfile.changes < MaxTransitions
    /\ \E b \in {0, 1} :
          vfile' = [bit |-> b, notify |-> TRUE, changes |-> vfile.changes + 1]
    /\ UNCHANGED <<buffersize, md, data, closes, killer, now, rx, reads, kc,
                   sysvars, pivars, extra>>

(* ------------------------------ I2C poller ----------------------------- *)

\* largest bufferdepth handed to I2CPoll, ticks of the ticker, and calls of
\* the termination function per caller
MaxDepth == 2
MaxTicks == 3
MaxTerms == 2

\* killer := make(chan bool, 1)
pollKillerCap == 1
\* data := make(chan I2CRecording, 0)
pollDataCap == 0
\* the channel of a time.Ticker holds one tick; further ticks are dropped
tickerCap == 1

PollerInit ==
    [pc |-> "none", bufferdepth |-> 0, cap |-> 0, opens |-> 0, nreads |-> 0,
     record |-> 0, dest |-> FALSE, stamp |-> 0, why |-> "-",
     data |-> FALSE, termfn |-> FALSE, err |-> "nil"]

\* the I2C world at rest, for the specifications that do not touch it
I2CIdle ==
    /\ poller = PollerInit
    /\ pollkiller = <<>>
    /\ ticker = <<>>
    /\ prx = [got |-> <<>>, waiting |-> FALSE, sawClosed |-> FALSE]
    /\ pcloses = [data |-> 0, ctrl |-> 0, tick |-> 0]
    /\ tc = [c \in Callers |-> [pc |-> "idle", calls |-> 0]]

\* (I2CPoll starting its goroutine although the initial read failed)
I2CPoll_start_anyway ==
    /\ poller.pc = "none"
    /\ \E b \in 0 .. MaxDepth, e \in {"nil", "open", "ioctl", "read"} :
          /\ poller' =
                CASE e = "open" ->
                       [PollerInit EXCEPT !.pc = "failed", !.bufferdepth = b,
                                          !.err = e]
                  [] e = "ioctl" ->
                       [PollerInit EXCEPT !.pc = "failed", !.bufferdepth = b,
                                          !.opens = 1, !.err = e]
                  [] e = "read" ->
                       [PollerInit EXCEPT !.pc = "select", !.bufferdepth = b,
                                          !.opens = 1, !.err = e,
                                          !.cap = pollDataCap, !.dest = TRUE]
                  [] OTHER ->
                       [PollerInit EXCEPT !.pc = "select", !.bufferdepth = b,
                                          !.opens = 1, !.cap = pollDataCap,
                                          !.nreads = 1, !.record = 1,
                                          !.dest = TRUE, !.data = TRUE,
                                          !.termfn = TRUE]
          /\ pcloses' = pcloses
    /\ UNCHANGED <<pollkiller, ticker, prx, tc, sysvars, pivars, monvars, iovars>>

\* I2CPoll up to its return: os.OpenFile, the I2C_SLAVE ioctl and the initial
\* read, each of which may fail (only the failed read closes ctrl); then
\* make(chan I2CRecording, 0), the first record, and the goroutine, which
\* starts with dest = data
I2CPoll ==
    /\ poller.pc = "none"
    /\ \E b \in 0 .. MaxDepth, e \in {"nil", "open", "ioctl", "read"} :
          /\ poller' =
                CASE e = "open" ->
                       [PollerInit EXCEPT !.pc = "failed", !.bufferdepth = b,
                                          !.err = e]
                  [] e \in {"ioctl", "read"} ->
                       [PollerInit EXCEPT !.pc = "failed", !.bufferdepth = b,
                                          !.opens = 1, !.err = e]
                  [] OTHER ->
                       [PollerInit EXCEPT !.pc = "select", !.bufferdepth = b,
                                          !.opens = 1, !.cap = pollDataCap,
                                          !.nreads = 1, !.record = 1,
                                          !.dest = TRUE, !.data = TRUE,
                                          !.termfn = TRUE]
          /\ pcloses' = IF e = "read" THEN [pcloses EXCEPT !.ctrl = @ + 1]
                        ELSE pcloses
    /\ UNCHANGED <<pollkiller, ticker, prx, tc, sysvars, pivars, monvars, iovars>>

\* select, case <-killer: return
i2c_kill ==
    /\ poller.pc = "select"
    /\ pollkiller # <<>>
    /\ pollkiller' = Tail(pollkiller)
    /\ poller' = [poller EXCEPT !.pc = "exit", !.why = "stop"]
    /\ UNCHANGED <<ticker, prx, pcloses, tc, sysvars, pivars, monvars, iovars>>

\* (a send that leaves dest as it is)
i2c_send_keep_dest ==
    /\ poller.pc = "select"
    /\ poller.dest
    /\ prx.waiting
    /\ prx' = [prx EXCEPT !.got = Append(@, poller.record), !.waiting = FALSE]
    /\ UNCHANGED <<poller, pollkiller, ticker, pcloses, tc, sysvars, pivars, monvars,
                   iovars>>

\* select, case dest <- record: dest = nil.  The channel is unbuffered: the
\* send goes ahead when the consumer is in its receive.
i2c_send ==
    /\ poller.pc = "select"
    /\ poller.dest
    /\ prx.waiting
    /\ prx' = [prx EXCEPT !.got = Append(@, poller.record), !.waiting = FALSE]
    /\ poller' = [poller EXCEPT !.dest = FALSE]
    /\ UNCHANGED <<pollkiller, ticker, pcloses, tc, sysvars, pivars, monvars,
                   iovars>>

\* select, case stamp = <-tick.C
i2c_tick ==
    /\ poller.pc = "select"
    /\ ticker # <<>>
    /\ ticker' = Tail(ticker)
    /\ poller' = [poller EXCEPT !.pc = "read", !.stamp = Head(ticker)]
    /\ UNCHANGED <<pollkiller, prx, pcloses, tc, sysvars, pivars, monvars, iovars>>

\* (a read that keeps a record not yet taken, as a one-slot queue would)
i2c_read_keep_oldest ==
    /\ poller.pc = "read"
    /\ \E e \in {"nil", "read"} :
          poller' =
             IF e = "nil"
             THEN [poller EXCEPT !.pc = "select", !.nreads = @ + 1,
                                 !.record = IF poller.dest THEN @
                                            ELSE poller.nreads + 1,
                                 !.dest = TRUE]
             ELSE [poller EXCEPT !.pc = "exit", !.why = e]
    /\ UNCHANGED <<pollkiller, ticker, prx, pcloses, tc, sysvars, pivars, monvars,
                   iovars>>

\* n, err := ctrl.Read(buffer): on an error return; else the new record
\* replaces the old one and dest = data
i2c_read ==
    /\ poller.pc = "read"
    /\ \E e \in {"nil", "read"} :
          poller' =
             IF e = "nil"
             THEN [poller EXCEPT !.pc = "select", !.nreads = @ + 1,
                                 !.record = poller.nreads + 1, !.dest = TRUE]
             ELSE [poller EXCEPT !.pc = "exit", !.why = e]
    /\ UNCHANGED <<pollkiller, ticker, prx, pcloses, tc, sysvars, pivars, monvars,
                   iovars>>

\* (a return that leaves the channel open)
i2c_exit_noclose ==
    /\ poller.pc = "exit"
    /\ pcloses' = [pcloses EXCEPT !.ctrl = @ + 1, !.tick = @ + 1]
    /\ poller' = [poller EXCEPT !.pc = "done"]
    /\ UNCHANGED <<pollkiller, ticker, prx, tc, sysvars, pivars, monvars, iovars>>

\* every return of the goroutine runs the deferred tick.Stop(), ctrl.Close()
\* and close(data)
i2c_exit ==
    /\ poller.pc = "exit"
    /\ pcloses' = [pcloses EXCEPT !.data = @ + 1, !.ctrl = @ + 1, !.tick = @ + 1]
    /\ poller' = [poller EXCEPT !.pc = "done"]
    /\ UNCHANGED <<pollkiller, ticker, prx, tc, sysvars, pivars, monvars, iovars>>

\* the stamp of the last tick the ticker made
LastTick == IF ticker # <<>> THEN ticker[Len(ticker)] ELSE poller.stamp

\* the ticker fires: the tick goes into tick.C when there is room (a tick
\* that finds tick.C full is dropped and changes nothing)
TickerFire ==
    /\ poller.pc \in {"select", "read"}
    /\ LastTick < MaxTicks
    /\ Len(ticker) < tickerCap
    /\ ticker' = Append(ticker, LastTick + 1)
    /\ UNCHANGED <<poller, pollkiller, prx, pcloses, tc, sysvars, pivars, monvars,
                   iovars>>

\* termfn: killer <- true
termfn(c) ==
    /\ tc[c].pc = "term"
    /\ Len(pollkiller) < pollKillerCap
    /\ pollkiller' = Append(pollkiller, TRUE)
    /\ tc' = [tc EXCEPT ![c].pc = "idle"]
    /\ UNCHANGED <<poller, ticker, prx, pcloses, sysvars, pivars, monvars, iovars>>

\* a holder of the termination function calls it
TermCall(c) ==
    /\ poller.termfn
    /\ tc[c].pc = "idle"
    /\ tc[c].calls < MaxTerms
    /\ tc' = [tc EXCEPT ![c].pc = "term", ![c].calls = @ + 1]
    /\ UNCHANGED <<poller, pollkiller, ticker, prx, pcloses, sysvars, pivars,
                   monvars, iovars>>

\* the holder of the channel enters a receive, or finds the channel closed
PollReceive ==
    /\ poller.data
    /\ ~prx.waiting
    /\ ~prx.sawClosed
    /\ prx' = IF pcloses.data > 0 THEN [prx EXCEPT !.sawClosed = TRUE]
              ELSE [prx EXCEPT !.waiting = TRUE]
    /\ UNCHANGED <<poller, pollkiller, ticker, pcloses, tc, sysvars, pivars,
                   monvars, iovars>>

\* a consumer waiting in its receive when the channel is closed
PollReceiveClosed ==
    /\ prx.waiting
    /\ pcloses.data > 0
    /\ prx' = [prx EXCEPT !.waiting = FALSE, !.sawClosed = TRUE]
    /\ UNCHANGED <<poller, pollkiller, ticker, pcloses, tc, sysvars, pivars,
                   monvars, iovars>>

(* ------------------------ the locks of the library ---------------------- *)

\* the tasks that touch files: two callers of port methods, the goroutine of
\* the edge monitor, and the watcher goroutine of each caller's await call
CallerTasks == {1, 2}
MonitorTask == 3
Watcher(t) == t + 3
IoTasks == 1 .. 5

\* the ports the two callers work on
LockPorts == {17, 18}

\* the port methods by what they do besides file primitives: Enable and
\* Reset wait for the kernel, the others (Value for all of them) do not
LockOps == {"Enable", "Reset", "Value"}

\* the file primitives, which run under syslock
LockedOps == {"readFile", "writeFile", "checkFile"}

\* the file operations a task performs: in a caller the primitives and the
\* os.Stat of the parent in awaitFileCreate; in a watcher checkFile; in the
\* monitor Seek and Read on the value file
IoOpsOf(t) ==
    IF t = MonitorTask THEN {"valf.Seek", "valf.Read"}
    ELSE IF t \in CallerTasks THEN LockedOps \cup {"os.Stat(dir)"}
    ELSE {"checkFile"}

IotInit == [pc |-> "idle", call |-> "none", port |-> 0, op |-> "none", free |-> FALSE]

IoIdle ==
    /\ syslock = {}
    /\ portmu = [p \in LockPorts |-> {}]
    /\ cachemu = {}
    /\ iot = [t \in IoTasks |-> IotInit]

\* where a task is between two file operations
Between(t) == IF t \in CallerTasks THEN "body" ELSE "idle"

\* whether a task may begin a file operation: a caller in the body of its
\* port method, a watcher while its caller waits, the monitor at any time
MayIo(t) ==
    IF t \in CallerTasks THEN iot[t].pc = "body"
    ELSE IF t = MonitorTask THEN iot[t].pc = "idle"
    ELSE iot[t].pc = "idle" /\ iot[t - 3].pc = "wait"

\* a caller is waiting for the kernel, its watcher goroutine polling
Waiting(t) == t \in CallerTasks /\ iot[t].pc = "wait"

\* a caller asks the Pi for a port and calls a method of it
OpCall(t) ==
    /\ t \in CallerTasks
    /\ iot[t].pc = "idle"
    /\ \E p \in LockPorts, o \in LockOps :
          iot' = [iot EXCEPT ![t] =
                    [IotInit EXCEPT !.pc = "getport", !.call = o, !.port = p,
                                    !.free = \E a \in CallerTasks \ {t} :
                                                Waiting(a) /\ iot[a].port # p]]
    /\ UNCHANGED <<syslock, portmu, cachemu, sysvars, pivars, monvars, i2cvars>>

\* GetPort: defer p.unlock(p.lock()) on the Pi
cache_lock(t) ==
    /\ iot[t].pc = "getport"
    /\ cachemu = {}
    /\ cachemu' = {t}
    /\ iot' = [iot EXCEPT ![t].pc = "gotport"]
    /\ UNCHANGED <<syslock, portmu, sysvars, pivars, monvars, i2cvars>>

\* GetPort returns: the deferred unlock of the Pi
cache_unlock(t) ==
    /\ iot[t].pc = "gotport"
    /\ cachemu' = cachemu \ {t}
    /\ iot' = [iot EXCEPT ![t].pc = "port_lock"]
    /\ UNCHANGED <<syslock, portmu, sysvars, pivars, monvars, i2cvars>>

\* every port method begins with defer p.unlock(p.lock())
port_lock(t) ==
    /\ iot[t].pc = "port_lock"
    /\ portmu[iot[t].port] = {}
    /\ portmu' = [portmu EXCEPT ![iot[t].port] = {t}]
    /\ iot' = [iot EXCEPT ![t].pc = "body"]
    /\ UNCHANGED <<syslock, cachemu, sysvars, pivars, monvars, i2cvars>>

\* a task comes to a file operation: readFile, writeFile and checkFile begin
\* with defer unlock(lock()); the others go straight to the system call
IoCall(t) ==
    /\ MayIo(t)
    /\ \E o \in IoOpsOf(t) :
          iot' = [iot EXCEPT ![t].pc = IF o \in LockedOps THEN "lock" ELSE "io",
                             ![t].op = o]
    /\ UNCHANGED <<syslock, portmu, cachemu, sysvars, pivars, monvars, i2cvars>>

\* lock(): syslock.Lock()
lock(t) ==
    /\ iot[t].pc = "lock"
    /\ syslock = {}
    /\ syslock' = {t}
    /\ iot' = [iot EXCEPT ![t].pc = "io"]
    /\ UNCHANGED <<portmu, cachemu, sysvars, pivars, monvars, i2cvars>>

\* the system call of the operation returns
IoDone(t) ==
    /\ iot[t].pc = "io"
    /\ iot' = [iot EXCEPT ![t].pc = IF iot[t].op \in LockedOps THEN "unlock"
                                    ELSE Between(t),
                          ![t].op = IF iot[t].op \in LockedOps THEN @ ELSE "none"]
    /\ UNCHANGED <<syslock, portmu, cachemu, sysvars, pivars, monvars, i2cvars>>

\* the deferred unlock(): syslock.Unlock()
unlock(t) ==
    /\ iot[t].pc = "unlock"
    /\ syslock' = syslock \ {t}
    /\ iot' = [iot EXCEPT ![t].pc = Between(t), ![t].op = "none"]
    /\ UNCHANGED <<portmu, cachemu, sysvars, pivars, monvars, i2cvars>>

\* (a wait entered with syslock taken and kept)
IoWait_locked(t) ==
    /\ t \in CallerTasks
    /\ iot[t].pc = "body"
    /\ iot[t].call \in {"Enable", "Reset"}
    /\ syslock = {}
    /\ syslock' = {t}
    /\ iot' = [iot EXCEPT ![t].pc = "wait"]
    /\ UNCHANGED <<portmu, cachemu, sysvars, pivars, monvars, i2cvars>>

\* Enable and Reset: the receive from the channel of the await call (and, in
\* Enable, the delays between its probes)
IoWait(t) ==
    /\ t \in CallerTasks
    /\ iot[t].pc = "body"
    /\ iot[t].call \in {"Enable", "Reset"}
    /\ iot' = [iot EXCEPT ![t].pc = "wait"]
    /\ UNCHANGED <<syslock, portmu, cachemu, sysvars, pivars, monvars, i2cvars>>

\* the wait ends: the watcher has sent its result and returned.  A call on
\* another port that began during the wait no longer runs beside it.
IoWake(t) ==
    /\ Waiting(t)
    /\ iot[Watcher(t)].pc = "idle"
    /\ iot' = [a \in IoTasks |->
                 IF a = t THEN [iot[t] EXCEPT !.pc = "body"]
                 ELSE IF a \in CallerTasks THEN [iot[a] EXCEPT !.free = FALSE]
                 ELSE iot[a]]
    /\ UNCHANGED <<syslock, portmu, cachemu, sysvars, pivars, monvars, i2cvars>>

\* (a return that leaves without the deferred unlock of the port)
OpReturn_keep_lock(t) ==
    /\ t \in CallerTasks
    /\ iot[t].pc = "body"
    /\ iot' = [iot EXCEPT ![t].pc = "idle"]
    /\ UNCHANGED <<syslock, portmu, cachemu, sysvars, pivars, monvars, i2cvars>>

\* the method returns
OpReturn(t) ==
    /\ t \in CallerTasks
    /\ iot[t].pc = "body"
    /\ iot' = [iot EXCEPT ![t].pc = "port_unlock"]
    /\ UNCHANGED <<syslock, portmu, cachemu, sysvars, pivars, monvars, i2cvars>>

\* the deferred p.unlock(): p.mu.Unlock()
port_unlock(t) ==
    /\ iot[t].pc = "port_unlock"
    /\ portmu' = [portmu EXCEPT ![iot[t].port] = @ \ {t}]
    /\ iot' = [iot EXCEPT ![t].pc = "idle"]
    /\ UNCHANGED <<syslock, cachemu, sysvars, pivars, monvars, i2cvars>>

(* ------------------- specification of the direct watches --------------- *)

InitWatch ==
    /\ parentKind \in {"dir", "notdir", "missing"}
    /\ fs \in [Paths -> {"absent", "ready"}]
    /\ parentKind # "dir" => fs[TmpFile] = "absent"
    /\ \A p \in Ports : \A f \in CtlFiles(p) : fs[f] = fs[folder(p)]
    /\ content = [f \in UNION {CtlFiles(p) : p \in Ports} |-> "0"]
    /\ kpending = {}
    /\ mu = [p \in Ports |-> {}]
    /\ th = [c \in Callers |-> ThInit]
    /\ w = [c \in Callers |-> WInit]
    /\ ret = [c \in Callers |-> <<>>]
    /\ g = [c \in Callers |-> GInit]
    /\ hist = [p \in Ports |-> HInit]
    /\ PiIdle
    /\ MonIdle
    /\ I2CIdle
    /\ IoIdle

NextWatch ==
    \/ \E c \in Callers :
          \/ DirectCall(c)
          \/ GPIOResetAsync(c)
          \/ awaitFileCreate_check(c)
          \/ awaitFileCreate_stat(c)
          \/ awaitFileRemove_check(c)
          \/ poll_check(c)
          \/ poll_select(c)
          \/ poll_send(c)
          \/ awaitFileCreate_notify_check(c)
          \/ awaitFileCreate_notify_watch(c)
          \/ notify_check(c)
          \/ notify_select(c)
          \/ notify_send(c)
          \/ Consume(c)
    \/ \E name \in WatchedPaths : FsCreate(name) \/ FsRemove(name)
    \/ Tick

SpecWatch == InitWatch /\ [][NextWatch]_vars

(* ------------------- specification of the port operations -------------- *)

CtlAll == UNION {CtlFiles(p) : p \in Ports}

InitPort ==
    /\ parentKind = "dir"
    /\ fs \in [Paths -> {"absent", "ready"}]
    /\ fs[TmpFile] = "absent"
    /\ \A p \in Ports : \A f \in CtlFiles(p) : fs[f] = fs[folder(p)]
    /\ content = [f \in CtlAll |-> IF f \in {direction(p) : p \in Ports} THEN "in" ELSE "0"]
    /\ kpending = {}
    /\ mu = [p \in Ports |-> {}]
    /\ th = [c \in Callers |-> ThInit]
    /\ w = [c \in Callers |-> WInit]
    /\ ret = [c \in Callers |-> <<>>]
    /\ g = [c \in Callers |-> GInit]
    /\ hist = [p \in Ports |-> HInit]
    /\ PiIdle
    /\ MonIdle
    /\ I2CIdle
    /\ IoIdle

NextPort ==
    \/ \E c \in Callers :
          \/ PortCall(c)
          \/ PortReturn(c)
          \/ IsEnabled(c)
          \/ Enable_check(c)
          \/ Enable_export(c)
          \/ Enable_recv(c)
          \/ Enable_delay(c)
          \/ Enable_probe(c)
          \/ Enable_write(c)
          \/ Enable_select(c)
          \/ Reset_check(c)
          \/ Reset_unexport(c)
          \/ Reset_recv(c)
          \/ checkEnabled(c)
          \/ SetMode(c)
          \/ IsOutput(c)
          \/ Value(c)
          \/ SetValue(c)
          \/ State(c)
          \/ awaitFileCreate_check(c)
          \/ awaitFileCreate_stat(c)
          \/ awaitFileRemove_check(c)
          \/ poll_check(c)
          \/ poll_select(c)
          \/ poll_send(c)
    \/ \E p \in Ports : KernelExport(p) \/ KernelFile(p) \/ KernelUnexport(p)
    \/ Tick

SpecPort == InitPort /\ [][NextPort]_vars

(* ----------------------- specification of the Pi values ---------------- *)

\* the files and ports at rest, for the specifications that do not touch them
SysIdle ==
    /\ parentKind = "dir"
    /\ fs = [n \in Paths |-> "absent"]
    /\ content = [f \in CtlAll |-> IF f \in {direction(p) : p \in Ports} THEN "in" ELSE "0"]
    /\ kpending = {}
    /\ mu = [p \in Ports |-> {}]
    /\ th = [c \in Callers |-> ThInit]
    /\ w = [c \in Callers |-> WInit]
    /\ ret = [c \in Callers |-> <<>>]
    /\ g = [c \in Callers |-> GInit]
    /\ hist = [p \in Ports |-> HInit]

\* after init(): availableGPIO filled from the gpiochips found
InitPi ==
    /\ SysIdle
    /\ MonIdle
    /\ I2CIdle
    /\ IoIdle
    /\ \E chips \in ChipSets : availableGPIO = setAvailableGPIOs(chips)
    /\ sysReadable \in BOOLEAN
    /\ getdetails = "new"
    /\ host = 0
    /\ pis = <<>>
    /\ portctrl = [i \in 1 .. MaxPis |-> [l \in Lines |-> 0]]
    /\ pimu = [i \in 1 .. MaxPis |-> {}]
    /\ objs = <<>>
    /\ gp = [c \in Callers |-> GpInit]
    /\ got = {}
    /\ crashed = FALSE

NextPi ==
    \E c \in Callers :
       \/ PiCall(c)
       \/ GetPi(c)
       \/ GetDetailsFor(c)
       \/ GetPort_avail(c)
       \/ pi_lock(c)
       \/ GetPort_lookup(c)
       \/ GetPort_new(c)
       \/ GetPort_store(c)
       \/ pi_unlock(c)
       \/ PiReturn(c)

SpecPi == InitPi /\ [][NextPi]_vars

(* ---------------------- specification of the edge monitor --------------- *)

InitMon ==
    /\ SysIdle
    /\ PiIdle
    /\ I2CIdle
    /\ IoIdle
    /\ buffersize \in 0 .. MaxBuffer
    /\ md = MdInit
    /\ data = <<>>
    /\ closes = [data |-> 0, valf |-> 0]
    /\ killer = <<>>
    /\ vfile \in {[bit |-> b, notify |-> FALSE, changes |-> 0] : b \in {0, 1}}
    /\ now = 0
    /\ rx = [got |-> <<>>, waiting |-> FALSE, sawClosed |-> FALSE]
    /\ reads = <<>>
    /\ kc = [c \in Callers |-> [pc |-> "idle", calls |-> 0]]

NextMon ==
    \/ buildMonitor
    \/ mon_top
    \/ mon_seek
    \/ mon_read
    \/ mon_send
    \/ mon_killcheck
    \/ mon_poll
    \/ mon_exit
    \/ \E c \in Callers : KillCall(c) \/ killfn(c)
    \/ Receive
    \/ ReceiveClosed
    \/ Transition

SpecMon == InitMon /\ [][NextMon]_vars

\* the steps of the monitorData goroutine.  Each is enabled whenever the
\* goroutine is at it: the selects have a default case or a ready case, and
\* unix.Poll returns on readiness, on an error or after its timeout
MonitorStep ==
    \/ mon_top
    \/ mon_seek
    \/ mon_read
    \/ mon_send
    \/ mon_killcheck
    \/ mon_poll
    \/ mon_exit

\* the monitor with its goroutine scheduled: a goroutine that can run is run
\* by the Go scheduler; nothing is assumed of the callers, the consumer or
\* the kernel
SpecMonFair == SpecMon /\ WF_vars(MonitorStep)

(* ---------------------- specification of the I2C poller ---------------- *)

InitI2C ==
    /\ SysIdle
    /\ PiIdle
    /\ MonIdle
    /\ IoIdle
    /\ I2CIdle

NextI2C ==
    \/ I2CPoll
    \/ i2c_kill
    \/ i2c_send
    \/ i2c_tick
    \/ i2c_read
    \/ i2c_exit
    \/ TickerFire
    \/ \E c \in Callers : TermCall(c) \/ termfn(c)
    \/ PollReceive
    \/ PollReceiveClosed

SpecI2C == InitI2C /\ [][NextI2C]_vars

(* ------------------- specification of the file operations --------------- *)

InitIO ==
    /\ SysIdle
    /\ PiIdle
    /\ MonIdle
    /\ I2CIdle
    /\ IoIdle

NextIO ==
    \E t \in IoTasks :
       \/ OpCall(t)
       \/ cache_lock(t)
       \/ cache_unlock(t)
       \/ port_lock(t)
       \/ IoCall(t)
       \/ lock(t)
       \/ IoDone(t)
       \/ unlock(t)
       \/ IoWait(t)
       \/ IoWake(t)
       \/ OpReturn(t)
       \/ port_unlock(t)

SpecIO == InitIO /\ [][NextIO]_vars

\* the steps of a port method once it holds the port's lock, up to its
\* deferred unlock
MethodStep(c) ==
    \/ PortReturn(c)
    \/ IsEnabled(c)
    \/ Enable_check(c)
    \/ Enable_export(c)
    \/ Enable_recv(c)
    \/ Enable_delay(c)
    \/ Enable_probe(c)
    \/ Enable_write(c)
    \/ Enable_select(c)
    \/ Reset_check(c)
    \/ Reset_unexport(c)
    \/ Reset_recv(c)
    \/ checkEnabled(c)
    \/ SetMode(c)
    \/ IsOutput(c)
    \/ Value(c)
    \/ SetValue(c)
    \/ State(c)
    \/ awaitFileCreate_check(c)
    \/ awaitFileCreate_stat(c)
    \/ awaitFileRemove_check(c)

\* the steps of the polling goroutine of an await call
GoroutineStep(c) == poll_check(c) \/ poll_select(c) \/ poll_send(c)

\* the port methods with their tasks scheduled and time passing: a method or
\* a goroutine that can take its step takes it (the file primitives take
\* syslock around one system call, which returns), and the timers fire.
\* Nothing is assumed of the kernel, nor of what the callers call
SpecPortFair ==
    /\ SpecPort
    /\ WF_vars(Tick)
    /\ \A c \in Callers : WF_vars(MethodStep(c)) /\ WF_vars(GoroutineStep(c))

(* ----------------------- claims on the direct watches ------------------ *)

Returned(c) == th[c].pc = "have"
\* the call went to the polling implementation
Polled(c) == th[c].op \in {"awaitFileCreate", "awaitFileRemove", "GPIOResetAsync"}
Resolved(c) == g[c].sent >= 1

\* C3: when the awaited condition already holds at the call's first check
\* (awaitFileCreate on an existing path, awaitFileRemove on an absent one,
\* GPIOResetAsync on a valid port whose folder is absent), the call returns a
\* handle that already holds nil, and no polling goroutine was started.
C3_ImmediateResolve ==
    \A c \in Watchers :
        (Returned(c) /\ g[c].condAtCall) =>
            /\ th[c].h = "ch" /\ th[c].err = "nil"
            /\ ~g[c].spawned /\ w[c].pc = "none"
            /\ g[c].sent = 1 /\ g[c].msg = "nil"
            /\ IF th[c].val = "-" THEN ret[c] = <<"nil">> ELSE th[c].val = "nil"

C3_Witness ==
    \E c \in Watchers :
        /\ Returned(c) /\ g[c].condAtCall /\ th[c].op = "GPIOResetAsync"
        /\ ret[c] = <<"nil">> /\ th[c].timeout > 0

\* C4: on every handle exactly one value is ever sent: never a second one,
\* none while the goroutine still runs, one once it has ended; and the
\* goroutine's send always finds room in the buffer, read or not.
C4_ExactlyOneSend ==
    \A c \in Callers :
        /\ g[c].sent <= 1
        /\ w[c].pc \in {"send", "nsend"} => Len(ret[c]) < retCap
        /\ w[c].pc # "none" => g[c].sent = 0
        /\ (Returned(c) /\ th[c].h = "ch" /\ w[c].pc = "none") => g[c].sent = 1
        /\ Len(ret[c]) <= g[c].sent

C4_Witness ==
    \E c \in Watchers :
        /\ Returned(c) /\ g[c].spawned /\ g[c].sent = 1 /\ w[c].pc = "none"
        /\ th[c].val = "-" /\ ret[c] = <<"timeout">>

\* C5: a watch whose condition never held resolves with a timeout error, never
\* with success, no earlier than its timeout and no later than one poll
\* interval after it; until then it does not outlive that moment.
C5_TimeoutBounds ==
    \A c \in Watchers :
        /\ (Polled(c) /\ Resolved(c) /\ ~g[c].held) =>
              /\ g[c].msg = "timeout"
              /\ th[c].timeout <= g[c].at
              /\ g[c].at <= th[c].timeout + pollInterval
        /\ (Polled(c) /\ g[c].active /\ ~g[c].held) =>
              g[c].elapsed <= th[c].timeout + pollInterval

C5_Witness ==
    \E c \in Watchers :
        /\ Polled(c) /\ Resolved(c) /\ ~g[c].held /\ g[c].msg = "timeout"
        /\ th[c].timeout = MaxTimeout /\ g[c].at = MaxTimeout

\* the path of an awaitFileCreate call was absent at the call, appeared at
\* `appear` (time since the call) and has stayed since
StayedSince(c) ==
    /\ th[c].op = "awaitFileCreate"
    /\ ~g[c].condAtCall
    /\ g[c].appear >= 0

Delivered(c, v) == IF th[c].val = "-" THEN ret[c] = <<v>> ELSE th[c].val = v

\* C6 as stated: a path created (and staying) at any moment before the timeout
\* elapses makes the handle deliver nil.
C6_Original ==
    \A c \in Watchers :
        (Resolved(c) /\ StayedSince(c) /\ g[c].appear < th[c].timeout) =>
            g[c].msg = "nil"

\* C6 as amended: a path created (and staying) more than one poll interval
\* before the timeout elapses makes the handle deliver nil as a value, not a
\* timeout error.
C6_CreatedInTime ==
    \A c \in Watchers :
        (Resolved(c) /\ StayedSince(c)
            /\ g[c].appear + pollInterval < th[c].timeout) =>
            g[c].msg = "nil" /\ Delivered(c, "nil")

C6_Witness ==
    \E c \in Watchers :
        /\ Resolved(c) /\ StayedSince(c)
        /\ g[c].appear + pollInterval < th[c].timeout
        /\ g[c].appear > 0
        /\ th[c].val = "nil"

\* C7: awaitFileCreate on an absent path whose parent is missing or is no
\* directory returns an error and no handle, and starts no goroutine.
C7_ParentCheck ==
    \A c \in Watchers :
        (Returned(c) /\ th[c].op = "awaitFileCreate" /\ ~g[c].condAtCall
            /\ parentKind # "dir") =>
            /\ th[c].err = "config" /\ th[c].h = "nil"
            /\ ~g[c].spawned /\ w[c].pc = "none"
            /\ g[c].sent = 0 /\ ret[c] = <<>>

C7_Witness ==
    \E c \in Watchers :
        /\ Returned(c) /\ th[c].op = "awaitFileCreate"
        /\ parentKind = "notdir" /\ th[c].err = "config"

(* ------------------------ claims on the port methods -------------------- *)

\* caller c is inside a method of port p: it has taken p's lock and its
\* deferred unlock has not run
Holding(c, p) == th[c].pc \notin {"idle", "ret", "have"} /\ th[c].port = p

\* caller c is about to return err from method op
Returning(c, o) == th[c].pc = "unlock" /\ th[c].op = o

\* the files a call has written so far
Written(c) == {ev[2] : ev \in {e \in g[c].io : e[1] = "write"}}

\* C1: at any time at most one call on a port is between taking and releasing
\* the port's lock, the lock is held by exactly that call, and a watch
\* goroutine only runs for the call that holds the lock: the file operations
\* of two calls on one port never interleave.
C1_LockExclusion ==
    \A p \in Ports :
       /\ Cardinality({c \in Callers : Holding(c, p)}) <= 1
       /\ mu[p] = {c \in Callers : Holding(c, p)}
       /\ \A c \in Callers : w[c].pc # "none" => Holding(c, th[c].port)

\* a call is in the middle of Enable's polling while the other caller, with a
\* call still to make, is kept out
C1_Witness ==
    \E c \in Callers, d \in Callers, p \in Ports :
       /\ c # d
       /\ mu[p] = {c}
       /\ th[c].pc = "en_select"
       /\ th[c].since > 0
       /\ th[d].pc = "idle"

\* the part of Enable from the export write to its return
InEnableExport(c) ==
    /\ th[c].op = "Enable"
    /\ th[c].pc \notin {"idle", "ret", "have", "en_check"}
    /\ export \in Written(c) \/ th[c].pc = "en_export"

\* C2: two Enable calls on a port are never both in the part from the export
\* write on; once an Enable has completed successfully (hist.okEnable: it
\* left the folder in place, no unexport of an earlier Reset was still to
\* take effect, and no Reset has written unexport since) the export file is
\* not written again, and an Enable that returns found the folder present and
\* returns success without having written anything.
C2_EnableOnce ==
    /\ [](\A c \in Callers, d \in Callers :
             (c # d /\ th[c].port = th[d].port)
                => ~(InEnableExport(c) /\ InEnableExport(d)))
    /\ [](\A c \in Callers :
             (Returning(c, "Enable") /\ hist[th[c].port].okEnable)
                => /\ th[c].err = "nil"
                   /\ g[c].entry
                   /\ Written(c) = {})
    /\ [][\A p \in Ports :
             hist[p].okEnable => hist'[p].nExport = hist[p].nExport]_vars

\* the first Enable wrote the export file and completed with success; the
\* second is returning
C2_Witness ==
    \E c \in Callers :
       /\ Returning(c, "Enable")
       /\ hist[th[c].port].okEnable
       /\ hist[th[c].port].nExport = 1
       /\ th[c].err = "nil"

\* C8: an Enable that found the folder present returns success, has written
\* no file (not the export file, no probe), has started no watch and has not
\* entered the readiness polling.
C8_EnableNoop ==
    \A c \in Callers :
       (Returning(c, "Enable") /\ g[c].entry)
          => /\ th[c].err = "nil"
             /\ g[c].io = {}
             /\ g[c].obs = <<>>
             /\ ~g[c].spawned
             /\ w[c].pc = "none"
             /\ th[c].since = -1

C8_Witness ==
    \E c \in Callers :
       /\ Returning(c, "Enable")
       /\ g[c].entry
       /\ th[c].err = "nil"

\* C9: an Enable that found the folder absent and returns success has written
\* the export file, awaited the folder, and then found the folder, direction,
\* value and edge, in that order, each present and its probe write not
\* refused; a file that was absent or refused the write was polled again.
C9_EnableReady ==
    \A c \in Callers :
       (Returning(c, "Enable") /\ ~g[c].entry /\ th[c].err = "nil")
          => LET p == th[c].port IN
             /\ <<"write", export, sport(p)>> \in g[c].io
             /\ <<"await", "create", folder(p)>> \in g[c].io
             /\ g[c].obs = [i \in 1..4 |-> <<EnableFiles(p)[i], "ready">>]

\* success after the export write and after at least one more round of polling
C9_Witness ==
    \E c \in Callers :
       /\ Returning(c, "Enable")
       /\ ~g[c].entry
       /\ th[c].err = "nil"
       /\ th[c].since > 3 * pollInterval
       /\ Len(g[c].obs) = 4

\* C10: an Enable that wrote the export file returns success only for
\* readiness found within timelimit of the export write.
C10_WithinBudget ==
    \A c \in Callers :
       (Returning(c, "Enable") /\ ~g[c].entry /\ th[c].err = "nil")
          => th[c].since <= timelimit

\* C11: a Reset that found the folder absent returns success and has written
\* nothing: not the unexport file, and no watch was started.
C11_ResetNoop ==
    \A c \in Callers :
       (Returning(c, "Reset") /\ ~g[c].entry)
          => /\ th[c].err = "nil"
             /\ g[c].unexports = 0
             /\ g[c].io = {}
             /\ ~g[c].spawned
             /\ w[c].pc = "none"

C11_Witness ==
    \E c \in Callers :
       /\ Returning(c, "Reset")
       /\ ~g[c].entry
       /\ th[c].err = "nil"
       /\ fs[folder(th[c].port)] = "absent"

\* C12: a Reset that found the folder present has written the port's decimal
\* number to the unexport file, once, and nothing else; it returns success
\* only with the folder gone, a timeout error only once timelimit has passed
\* (and no later than one poll interval after it); any other error is the
\* one the unexport write itself returned, and then nothing was awaited.
C12_ResetUnexports ==
    \A c \in Callers :
       (Returning(c, "Reset") /\ g[c].entry)
          => LET p == th[c].port IN
             /\ g[c].unexports = 1
             /\ g[c].io \ {<<"await", "remove", folder(p)>>}
                   = {<<"write", unexport, Sprintf_d(p)>>}
             /\ g[c].spawned => th[c].err \in {"nil", "timeout"}
             /\ th[c].err = "nil" =>
                   /\ fs[folder(p)] = "absent"
                   /\ g[c].sent = 1 /\ g[c].msg = "nil"
             /\ th[c].err = "timeout" =>
                   /\ timelimit <= g[c].at
                   /\ g[c].at <= timelimit + pollInterval
             /\ ~g[c].spawned =>
                   \/ th[c].err = "nil" /\ g[c].condAtCall
                   \/ th[c].err \in {"io", "inval"} /\ g[c].sent = 0

\* a successful Enable wrote the export file, and the Reset after it waited
\* for the kernel and returns success with the folder gone
C12_Witness ==
    \E c \in Callers :
       /\ Returning(c, "Reset")
       /\ g[c].entry
       /\ th[c].err = "nil"
       /\ g[c].at > 0
       /\ hist[th[c].port].nExport = 1
       /\ fs[folder(th[c].port)] = "absent"

NeedEnabled == {"SetMode", "IsOutput", "Value", "SetValue"}

\* C13: SetMode, IsOutput, Value and SetValue on a port whose folder is absent
\* return the "not enabled" error, a false value where they return one, and
\* have neither read nor written any file.
C13_NotEnabled ==
    \A c \in Callers :
       (th[c].pc = "unlock" /\ th[c].op \in NeedEnabled /\ ~g[c].entry)
          => /\ th[c].err = "notenabled"
             /\ th[c].val = "-"
             /\ g[c].io = {}

C13_Witness ==
    \E c \in Callers, d \in Callers :
       /\ c # d
       /\ Returning(c, "SetValue")
       /\ ~g[c].entry
       /\ th[c].err = "notenabled"
       /\ th[d].calls = 1 /\ th[d].pc = "ret"

(* --------------------------- claims on the Pi values --------------------- *)

\* caller c has the result of a GetPort in hand
GetPortDone(c) == gp[c].op = "GetPort" /\ gp[c].pc = "gp_ret"

\* the port objects made for line l of Pi value i
ObjectsOf(i, l) == {o \in DOMAIN objs : objs[o] = <<i, l>>}

\* C14: GetPort for a line that is not in the discovered available set returns
\* an error and a nil port, reads and writes no file, and adds no entry to the
\* cache: no Pi value ever has an entry or an object for such a line.
C14_NotAvailable ==
    /\ \A c \in Callers :
          (GetPortDone(c) /\ gp[c].port \notin availableGPIO) =>
             /\ gp[c].err = "notavailable"
             /\ gp[c].res = 0
             /\ gp[c].io = {}
             /\ portctrl[gp[c].pi][gp[c].port] = 0
    /\ \A i \in 1 .. MaxPis, l \in Lines \ availableGPIO :
          portctrl[i][l] = 0 /\ ObjectsOf(i, l) = {}

C14_Witness ==
    \E c \in Callers :
       /\ GetPortDone(c)
       /\ gp[c].port \notin availableGPIO
       /\ availableGPIO # {}
       /\ gp[c].err = "notavailable"
       /\ \E l \in availableGPIO : portctrl[gp[c].pi][l] # 0

\* C15: for one Pi value and one available line every GetPort, sequential or
\* concurrent, returns the same object: one object at most is ever made and
\* handed out for the pair, a returning call has the cached object, and an
\* entry of the cache, once set, never changes.
C15_SamePort ==
    /\ [](\A i \in 1 .. MaxPis, l \in Lines :
            /\ Cardinality(ObjectsOf(i, l)) <= 1
            /\ Cardinality({t \in got : t[1] = i /\ t[2] = l}) <= 1
            /\ \A c \in Callers :
                  (GetPortDone(c) /\ gp[c].pi = i /\ gp[c].port = l
                     /\ l \in availableGPIO) =>
                     /\ gp[c].err = "nil"
                     /\ gp[c].res # 0
                     /\ gp[c].res = portctrl[i][l]
                     /\ \A t \in got : (t[1] = i /\ t[2] = l) => t[3] = gp[c].res)
    /\ [][\A i \in 1 .. MaxPis, l \in Lines :
            portctrl[i][l] # 0 => portctrl'[i][l] = portctrl[i][l]]_vars

\* two concurrent calls for the same line of the same Pi value have returned
C15_Witness ==
    \E c, d \in Callers :
       /\ c # d
       /\ GetPortDone(c) /\ GetPortDone(d)
       /\ gp[c].pi = gp[d].pi /\ gp[c].port = gp[d].port
       /\ gp[c].res # 0 /\ gp[c].res = gp[d].res

\* C16: over any sequence of GetPi, GetDetailsFor and GetPort calls at most
\* one port object exists per line number.
C16_OnePerLine ==
    \A l \in Lines : Cardinality({o \in DOMAIN objs : objs[o][2] = l}) <= 1

(* -------------------------- claims on the edge monitor ------------------- *)

\* the monitor task is running
Monitoring == md.pc \in {"top", "seek", "read", "send", "killcheck", "poll", "exit"}

\* C17: on every exit path of the monitor (stop signal, full channel, read,
\* seek or poll error) the event stream is closed exactly once and the value
\* file is closed: neither is closed while the task runs, neither is ever
\* closed twice (closing a closed channel panics), and a task that has
\* exited has closed both, whatever the reason of its exit.
C17_ClosedOnce ==
    /\ closes.data <= 1 /\ closes.valf <= 1
    /\ Monitoring => closes = [data |-> 0, valf |-> 0]
    /\ md.pc = "done" =>
          /\ md.why \in {"stop", "overflow", "read", "seek", "poll"}
          /\ closes = [data |-> 1, valf |-> 1]
    /\ md.pc \in {"none", "failed"} => closes = [data |-> 0, valf |-> 0]

C17_Witness ==
    /\ md.pc = "done"
    /\ md.why = "poll"
    /\ closes = [data |-> 1, valf |-> 1]
    /\ Len(rx.got) > 0

\* C18: the monitor never blocks on delivering an event: with an event in
\* hand its select can always take a step, and when the channel has no room,
\* no receiver waits and no stop signal is pending that step ends the task,
\* which closes the stream: a consumer that has stopped reading finds it
\* closed with no more than the channel's capacity of events in it.
C18_NoBlock ==
    /\ [](/\ md.pc = "send" => ENABLED mon_send
          /\ Len(data) <= buffersize
          /\ (md.pc = "done" /\ md.why = "overflow") => closes.data = 1)
    /\ [][(md.pc = "send" /\ ~CanSend /\ killer = <<>> /\ md' # md) =>
             (md'.pc = "exit" /\ md'.why = "overflow" /\ data' = data)]_vars

C18_Witness ==
    /\ md.pc = "done"
    /\ md.why = "overflow"
    /\ buffersize > 0
    /\ Len(data) = buffersize
    /\ closes.data = 1
    /\ rx.got = <<>>

\* the events out of the monitor so far, in the order of their sending: those
\* the consumer has received, then those waiting in the channel
Emitted == rx.got \o data

\* C19: what the consumer receives is, in order and with nothing left out or
\* doubled, a prefix of what the monitor read (true exactly for "1"), with
\* increasing timestamps; when the monitor has read 0, 1, 0 and the consumer
\* has taken all of it, the consumer has exactly false, true, false.
C19_EventsInOrder ==
    /\ Len(Emitted) <= Len(reads)
    /\ \A k \in 1 .. Len(Emitted) :
          Emitted[k][1] = (reads[k] \in {"1", "1\n"})
    /\ \A k \in 1 .. Len(Emitted) - 1 : Emitted[k][2] < Emitted[k + 1][2]
    /\ (reads = <<"0\n", "1\n", "0\n">> /\ Len(rx.got) = 3) =>
          /\ rx.got[1][1] = FALSE /\ rx.got[2][1] = TRUE /\ rx.got[3][1] = FALSE
          /\ data = <<>>

C19_Witness ==
    /\ reads = <<"0\n", "1\n", "0\n">>
    /\ Len(rx.got) = 3
    /\ rx.got[2][1] = TRUE
    /\ vfile.changes = 2

\* C20: the stop function never blocks and is idempotent: a call can always
\* take its step, whether the monitor runs or has exited; the killer channel
\* never holds more than its one signal; and a call changes nothing but the
\* killer channel, and not even that when a signal is already pending.
C20_StopIdempotent ==
    /\ [](/\ \A c \in Callers : kc[c].pc = "kill" => ENABLED killfn(c)
          /\ Len(killer) <= killerCap)
    /\ [][\A c \in Callers :
            (kc[c].pc = "kill" /\ kc'[c].pc = "idle") =>
               /\ UNCHANGED <<md, data, closes, rx, reads, vfile, now>>
               /\ killer # <<>> => killer' = killer
               /\ killer = <<>> => killer' = <<TRUE>>]_vars

\* the monitor has exited on a stop signal and a later call has returned
C20_Witness ==
    /\ md.pc = "done"
    /\ md.why = "stop"
    /\ killer = <<TRUE>>
    /\ \A c \in Callers : kc[c].pc = "idle"
    /\ \E c \in Callers : kc[c].calls = MaxKills

\* C21: once the stop function has been called the monitor does no further
\* readiness wait: with a stop signal pending, a monitor that is in its wait
\* (unix.Poll) leaves it for its exit on the stop signal, not on the
\* descriptor's readiness or the timeout of the wait.
C21_StopEndsWait ==
    [][(md.pc = "poll" /\ killer # <<>> /\ md' # md) =>
          (md'.pc = "exit" /\ md'.why = "stop")]_vars

(* --------------------------- claims on the I2C poller -------------------- *)

\* the goroutine of the poller is running
Polling == poller.pc \in {"select", "read", "exit"}

\* C22: when opening the device, the slave-address ioctl or the initial read
\* fails, I2CPoll returns the error with a nil channel and a nil termination
\* function and starts no goroutine: nothing is ever read again, received or
\* closed.
C22_FailsClean ==
    poller.err # "nil" =>
       /\ poller.pc = "failed"
       /\ ~poller.data /\ ~poller.termfn
       /\ poller.nreads = 0
       /\ prx = [got |-> <<>>, waiting |-> FALSE, sawClosed |-> FALSE]
       /\ pcloses.data = 0 /\ pcloses.tick = 0
       /\ pollkiller = <<>> /\ ticker = <<>>

C22_Witness ==
    /\ poller.err = "read"
    /\ poller.pc = "failed"
    /\ poller.opens = 1
    /\ pcloses.ctrl = 1

\* C23: what the consumer receives is the latest read completed at the
\* moment of the hand-off: the k-th of the k reads made since the previous
\* receive, the k-1 before it never being delivered.
C23_Freshest ==
    /\ [](\A k \in 1 .. Len(prx.got) - 1 : prx.got[k] < prx.got[k + 1])
    /\ [][prx.got' # prx.got => prx.got' = Append(prx.got, poller.nreads)]_vars

\* the consumer took the first sample and, two intervals skipped, the fourth
C23_Witness == prx.got = <<1, 4>>

\* C24: once the termination function has been called the goroutine exits
\* without a further delivery or timer-triggered read: with the stop signal
\* pending its select takes the stop signal, also when the consumer is
\* waiting or a tick is pending.
C24_StopFirst ==
    [][(poller.pc = "select" /\ pollkiller # <<>> /\ poller' # poller) =>
          (poller'.pc = "exit" /\ poller'.why = "stop")]_vars

\* C25: on every exit path of the goroutine (stop signal, read error) the
\* channel is closed exactly once, the device is closed and the ticker is
\* stopped, none of them before the exit; the consumer gets samples only,
\* and learns of a read error by the closing of the channel.
C25_PollerClosed ==
    /\ pcloses.data <= 1 /\ pcloses.ctrl <= poller.opens /\ pcloses.tick <= 1
    /\ Polling => pcloses = [data |-> 0, ctrl |-> 0, tick |-> 0]
    /\ poller.pc = "done" =>
          /\ poller.why \in {"stop", "read"}
          /\ pcloses = [data |-> 1, ctrl |-> 1, tick |-> 1]
    /\ \A k \in 1 .. Len(prx.got) : prx.got[k] \in 1 .. poller.nreads
    /\ prx.sawClosed => poller.pc = "done"

C25_Witness ==
    /\ poller.pc = "done"
    /\ poller.why = "read"
    /\ poller.nreads >= 2
    /\ prx.sawClosed
    /\ pcloses = [data |-> 1, ctrl |-> 1, tick |-> 1]

\* C26: the channel I2CPoll returns has the buffer depth of its bufferdepth
\* argument.
C26_BufferDepth == poller.data => poller.cap = poller.bufferdepth

(* ------------------------ claims on the write protocol ------------------- *)

\* what caller c wrote in its call, as <<file, text>>
Writes(c) == {<<ev[2], ev[3]>> : ev \in {e \in g[c].io : e[1] = "write"}}

\* what caller c read in its call, as <<file, content>>
Reads(c) == {<<ev[2], ev[3]>> : ev \in {e \in g[c].io : e[1] = "read"}}

\* the readiness probes of Enable: a blank written to the folder and to each
\* control file
Probes(p) == {<<EnableFiles(p)[i], " ">> : i \in 1 .. 4}

InIo == {t \in IoTasks : iot[t].pc = "io"}

\* C28: all file operations of the library are serialized process-wide: no
\* two of them (the primitives, the stat of the parent in awaitFileCreate,
\* the monitor's seek and read) are in progress at the same time.
C28_AllSerialized == Cardinality(InIo) <= 1

\* C30: while an Enable or Reset on one port waits for the kernel, a call on
\* another port can start and run to its end: the waiting call holds no lock
\* but that of its own port (not the other port's, not the Pi's, not
\* syslock), so that each lock step of the other call can be taken, unless
\* at that moment the watcher of the waiting call is inside a checkFile.
C30_PortsIndependent ==
    \A a \in CallerTasks :
       Waiting(a) =>
          /\ a \notin syslock
          /\ a \notin cachemu
          /\ \A p \in LockPorts : a \in portmu[p] <=> p = iot[a].port
          /\ iot[Watcher(a)].pc \notin {"io", "unlock"} =>
                \A b \in CallerTasks \ {a} :
                   iot[b].port # iot[a].port =>
                      /\ iot[b].pc = "getport" => ENABLED cache_lock(b)
                      /\ iot[b].pc = "port_lock" => ENABLED port_lock(b)
                      /\ iot[b].pc = "lock" => ENABLED lock(b)

\* a call on the other port began after the wait began and has come to its
\* return, the wait still going on
C30_Witness ==
    \E a, b \in CallerTasks :
       /\ Waiting(a)
       /\ iot[a].call = "Enable"
       /\ iot[b].pc = "port_unlock"
       /\ iot[b].free
       /\ iot[b].port # iot[a].port

\* C29: for a revision that is in none of the revision tables buildPi gives
\* a Pi whose pins are the default header, the 40-pin GPIO40HeaderV1 list.
C29_DefaultHeader ==
    \A i \in 1 .. Len(pis) :
       findRevisionMap(pis[i].revision) = "" =>
          /\ pis[i].gpioports # <<>>
          /\ pis[i].gpioports = SortInts(GPIO40HeaderV1)

\* C36: the poller hands each sample over at most once: a delivery needs
\* dest set and clears it, and only a completed read (the initial one, then
\* the timer-triggered ones) sets it again, so that no sample is received
\* twice and the samples come in the order of their reads.
C36_AtMostOnce ==
    /\ [](\A j, k \in 1 .. Len(prx.got) : j < k => prx.got[j] < prx.got[k])
    /\ [][/\ prx.got' # prx.got =>
                (poller.dest /\ ~poller'.dest /\ poller'.record = poller.record)
          /\ (~poller.dest /\ poller'.dest) =>
                (poller.pc \in {"none", "read"} /\ poller'.nreads = poller.nreads + 1)]_vars

\* the consumer has the first two samples and waits in a receive with
\* nothing new to be had
C36_Witness ==
    /\ prx.got = <<1, 2>>
    /\ prx.waiting
    /\ ~poller.dest
    /\ poller.pc = "select"
    /\ ticker = <<>>

\* C37: a call of the termination function never blocks its caller, however
\* often it is called and whether or not the goroutine still runs.
C37_TermNeverBlocks ==
    \A c \in Callers : tc[c].pc = "term" => ENABLED termfn(c)

\* C38: when I2CPoll returns an error after it opened the device, it has
\* closed the device.
C38_ClosedOnError ==
    (poller.pc = "failed" /\ poller.opens = 1) => pcloses.ctrl = 1

\* the errors the probe write of the caller's current file can return
ProbeErrs(c) == writeFile(EnableFiles(th[c].port)[th[c].fidx], " ")

\* C32 as stated: in Enable's readiness loop a probe write refused for lack
\* of permission ends the polling of that file, and a probe write failing
\* with any other error is followed by another round of polling.
C32_Original ==
    [][\A c \in Callers :
          (th[c].pc = "en_write" /\ th'[c].pc # "en_write") =>
             /\ ProbeErrs(c) = {"perm"} => th'[c].pc # "en_select"
             /\ ProbeErrs(c) \cap {"nil", "perm"} = {} => th'[c].pc = "en_select"]_vars

\* C32 as amended: in Enable's readiness loop a probe write refused for lack
\* of permission is followed by another round of polling, and a probe write
\* that succeeds or fails with any other error ends the polling of that file.
C32_ProbeErrors ==
    [][\A c \in Callers :
          (th[c].pc = "en_write" /\ th'[c].pc # "en_write") =>
             /\ ProbeErrs(c) = {"perm"} => th'[c].pc = "en_select"
             /\ "perm" \notin ProbeErrs(c) => th'[c].pc # "en_select"]_vars

\* Enable polls again after the probe write of the direction file was refused
\* for lack of permission, having taken the folder as ready on its probe
\* write's "is a directory"
C32_Witness ==
    \E c \in Callers :
       /\ th[c].pc = "en_select"
       /\ th[c].fidx = 2
       /\ fs[direction(th[c].port)] = "denied"
       /\ <<"write", direction(th[c].port), " ">> \in g[c].io
       /\ <<"write", folder(th[c].port), " ">> \in g[c].io

\* C33: once the stop function has put its signal, the monitor goroutine
\* eventually returns and closes the event channel, from wherever it was (the
\* readiness wait ends by its timeout at the latest), and it delivers at most
\* one more event: events are only delivered at the select of the loop, a
\* delivery made with the signal pending leads to the test of the killer
\* channel with the signal still there, and that test then ends the loop.
C33_StopExits ==
    /\ (killer # <<>>) ~> (md.pc = "done" /\ closes.data = 1 /\ closes.valf = 1)
    /\ [][/\ Emitted' # Emitted => md.pc = "send"
          /\ (killer # <<>> /\ Emitted' # Emitted) =>
                (md'.pc = "killcheck" /\ killer' # <<>>)
          /\ (killer # <<>> /\ md.pc = "killcheck" /\ md' # md) =>
                md'.pc = "exit"
          /\ (killer # <<>> /\ killer' = <<>>) => md'.pc = "exit"]_vars

\* two events delivered, one call of the stop function made and returned,
\* and the goroutine gone by the signal with the channel closed
C33_Witness ==
    /\ md.pc = "done"
    /\ md.why = "stop"
    /\ closes.data = 1
    /\ Len(Emitted) = 2
    /\ \E c \in Callers : kc[c].calls = 1
    /\ \A c \in Callers : kc[c].pc = "idle"

\* the monitor is in a delivery attempt: seek, read, send
Attempting == md.pc \in {"seek", "read", "send"}

\* C34: the monitor makes one delivery attempt for the value at start-up and
\* one for each return of the readiness wait that reports the descriptor
\* ready: ready is set by the start and by such a return only, each attempt
\* takes it back and makes one read and one pass of the sending select, and
\* there are never more reads than one plus the notifications of the value
\* file.  A return of the wait by its timeout leaves ready unset, sends
\* nothing, closes nothing and leads back to the top of the loop.
C34_OnePerNotification ==
    /\ [](/\ Attempting => ~md.ready
          /\ Len(reads) <= 1 + vfile.changes
          /\ Len(Emitted) <= Len(reads))
    /\ [][/\ (~md.ready /\ md'.ready) =>
                (md.pc = "none" \/ (md.pc = "poll" /\ vfile.notify))
          /\ (md.ready /\ ~md'.ready) => (md.pc = "top" /\ md'.pc = "seek")
          /\ (md'.pc = "seek" /\ md.pc # "seek") => (md.pc = "top" /\ md.ready)
          /\ (md'.pc = "read" /\ md.pc # "read") => md.pc = "seek"
          /\ (md'.pc = "send" /\ md.pc # "send") =>
                (md.pc = "read" /\ Len(reads') = Len(reads) + 1)
          /\ reads' # reads => md'.pc = "send"
          /\ Emitted' # Emitted =>
                (md.pc = "send" /\ Len(Emitted') = Len(Emitted) + 1)
          /\ (md.pc = "poll" /\ md' # md /\ ~vfile.notify /\ md'.pc # "exit") =>
                (/\ md'.pc = "top"
                 /\ ~md'.ready
                 /\ UNCHANGED <<data, rx, reads, closes>>)
          /\ (md.pc = "top" /\ ~md.ready /\ md' # md) =>
                (md'.pc = "killcheck" /\ UNCHANGED <<data, rx, reads, closes>>)]_vars

\* three attempts made and delivered for the start and two notifications, and
\* the monitor back in its wait with nothing pending, which only the timeout
\* or an error can end
C34_Witness ==
    /\ md.pc = "poll"
    /\ ~md.ready
    /\ ~vfile.notify
    /\ vfile.changes = 2
    /\ Len(reads) = 3
    /\ Len(Emitted) = 3
    /\ closes.data = 0

(* ---------------------- claims on the order of the locks ---------------- *)

\* the locks a task holds
HoldsPort(t) == \E p \in LockPorts : t \in portmu[p]
HoldsNone(t) == t \notin syslock /\ t \notin cachemu /\ ~HoldsPort(t)

\* the steps a task takes by itself once it can
TaskStep(t) ==
    \/ cache_lock(t)
    \/ cache_unlock(t)
    \/ port_lock(t)
    \/ lock(t)
    \/ IoDone(t)
    \/ unlock(t)
    \/ IoWake(t)
    \/ port_unlock(t)

\* a task cannot go on: it is at a Lock() whose mutex is taken, or a caller
\* waits for its watcher goroutine
Stuck(t) ==
    /\ iot[t].pc \in {"getport", "port_lock", "lock", "wait"}
    /\ ~ENABLED TaskStep(t)

\* the task a stuck task waits for: the holder of the mutex, or the watcher
WaitsFor(t) ==
    IF iot[t].pc = "getport" THEN CHOOSE u \in IoTasks : u \in cachemu
    ELSE IF iot[t].pc = "port_lock"
    THEN CHOOSE u \in IoTasks : u \in portmu[iot[t].port]
    ELSE IF iot[t].pc = "lock" THEN CHOOSE u \in IoTasks : u \in syslock
    ELSE Watcher(t)

\* following the waits from t for at most n tasks ends at a task that can
\* go on
RECURSIVE Unblocks(_, _)
Unblocks(t, n) ==
    IF ~Stuck(t) THEN TRUE
    ELSE IF n = 0 THEN FALSE
    ELSE Unblocks(WaitsFor(t), n - 1)

\* C35: the locks never deadlock.  Each mutex has at most one holder.  The
\* holder of syslock is inside the system call of a file primitive or at its
\* deferred unlock, never at another Lock() and never in a wait; the holder
\* of the Pi's lock is inside GetPort and holds nothing else; a caller is at
\* a file primitive only inside a port method, with the port's lock taken
\* first; a caller outside a port method holds no port lock, whichever way
\* the method returned; goroutines hold none of the outer locks.  And every
\* task that cannot go on waits, through at most three others, for a task
\* that can.
C35_LockOrder ==
    /\ Cardinality(syslock) <= 1
    /\ Cardinality(cachemu) <= 1
    /\ \A p \in LockPorts : Cardinality(portmu[p]) <= 1
    /\ \A t \in IoTasks :
          /\ t \in syslock => iot[t].pc \in {"io", "unlock"}
          /\ t \in cachemu => (iot[t].pc = "gotport" /\ t \notin syslock
                                  /\ ~HoldsPort(t))
          /\ (t \in CallerTasks /\ iot[t].pc \in {"lock", "io", "unlock", "wait"})
                => (t \in portmu[iot[t].port] /\ t \notin cachemu)
          /\ iot[t].pc \in {"idle", "getport", "port_lock"} => HoldsNone(t)
          /\ iot[t].pc = "wait" => t \notin syslock
          /\ t \notin CallerTasks => (t \notin cachemu /\ ~HoldsPort(t))
          /\ Unblocks(t, 3)

\* a chain of waits: one caller at the Lock() of a port whose holder waits
\* for its watcher goroutine, which holds syslock inside its system call
C35_Witness ==
    \E t, u \in CallerTasks :
       /\ t # u
       /\ iot[t].pc = "port_lock"
       /\ portmu[iot[t].port] = {u}
       /\ iot[u].pc = "wait"
       /\ syslock = {Watcher(u)}
       /\ iot[Watcher(u)].pc = "io"
       /\ Stuck(t) /\ Stuck(u)

\* some method or goroutine can take a step, or time can pass
CanGoOn ==
    ENABLED (Tick \/ \E d \in Callers : MethodStep(d) \/ GoroutineStep(d))

\* C31: every Enable and every Reset that has begun returns, whatever the
\* kernel does with the folder and the control files.  While one is under
\* way the program is never at a stop: a task can step or a timer runs.  The
\* wait of a call for its await goroutine and the polling of Enable are each
\* cut off by timelimit, so that Enable never runs past timelimit and two
\* poll intervals after its export write.
C31_AlwaysReturns ==
    /\ \A c \in Callers :
          (th[c].op \in {"Enable", "Reset"}) ~> (th[c].pc = "ret")
    /\ [](\A c \in Callers :
             /\ th[c].op \in {"Enable", "Reset"} => CanGoOn
             /\ th[c].since <= timelimit + 2 * pollInterval
             /\ w[c].pc # "none" => w[c].tout <= timelimit)

\* an Enable gave up on a control file that the kernel never made writable
C31_Witness ==
    \E c \in Callers :
       /\ Returning(c, "Enable")
       /\ th[c].err = "timeout"
       /\ th[c].fidx = 2
       /\ th[c].since >= timelimit
       /\ fs[direction(th[c].port)] = "denied"

====
